---- MODULE Spec2Model ----
(***************************************************************************)
(* Verification model of nomis/mcu-app:                                    *)
(*   - the littlefs block read cache (src/src/littlefs_block_cache.cpp)    *)
(*   - the configuration store and its dual-file commit (src/config.cpp)   *)
(***************************************************************************)
EXTENDS Integers, Sequences, FiniteSets, TLC

(***************************************************************************)
(* Block cache: geometry.  The build-time sizes (4096-byte blocks, 512 or  *)
(* 2048 device blocks, 128 or 512 cache slots) are scaled down.            *)
(***************************************************************************)
FILESYSTEM_BLOCK_SIZE == 2

FILESYSTEM_BLOCKS == 3

FILESYSTEM_CACHE_BLOCKS == 2

\* Number of wrapper calls explored in one run of the cache.
MaxCacheOps == 3

\* Number of prog and erase calls among them.
MaxDeviceWrites == 1

UINT16_MAX == 65535

Blocks == 0 .. (FILESYSTEM_BLOCKS - 1)

Slots == 0 .. (FILESYSTEM_CACHE_BLOCKS - 1)

\* The device exposes one block beyond the range the cache indexes.
DeviceBlocks == FILESYSTEM_BLOCKS + 1

DeviceSize == DeviceBlocks * FILESYSTEM_BLOCK_SIZE

Byte == {0, 1}

\* Status codes the device driver reports on failure (LFS_ERR_IO,
\* LFS_ERR_CORRUPT).
DeviceErrors == {-5, -84}

\* Values an uninitialised uint16_t of the heap may hold (a sample of the
\* 65536): a valid block number or the sentinel.
UninitUint16 == {0, UINT16_MAX}

\* The (off, size) of the read calls made: a whole block, a range that starts
\* inside a block and ends in the next one, and an offset of a whole block.
ReadShapes ==
    {<<0, FILESYSTEM_BLOCK_SIZE>>, <<FILESYSTEM_BLOCK_SIZE - 1, 2>>,
     <<FILESYSTEM_BLOCK_SIZE, 1>>}

\* The (off, size) of the prog calls made.
ProgShapes ==
    {<<0, FILESYSTEM_BLOCK_SIZE>>, <<FILESYSTEM_BLOCK_SIZE - 1, 2>>,
     <<FILESYSTEM_BLOCK_SIZE, 1>>}

\* The data of a prog call: n equal bytes.
ProgData(n) == {[i \in 1 .. n |-> v] : v \in Byte}

\* All byte strings of length n.
ByteSeqs(n) == [1 .. n -> Byte]

Min(a, b) == IF a < b THEN a ELSE b

VARIABLES
    device,           \* flash content, one byte per address
    heap,             \* which of init()'s three allocations the heap can satisfy
    cache_p,          \* cache != nullptr
    block_index_p,    \* block_index != nullptr
    cache_index_p,    \* cache_index != nullptr
    cache,            \* cache buffer, per slot; << >> = indeterminate content
    block_index,      \* uint16_t[FILESYSTEM_BLOCKS]
    cache_index,      \* uint16_t[FILESYSTEM_CACHE_BLOCKS]
    used_cache_size,
    fault,            \* the CPU raised an exception (store/load through nullptr)
    stray,            \* a store was made outside the bounds of an array
    alloc_failed,     \* some heap_caps_malloc() of init() has returned nullptr
    cache_ops,        \* wrapper calls made so far
    device_writes,    \* prog and erase calls made so far
    last_io,          \* the wrapper call that has just returned
    mounted_,         \* Config::mounted_
    unavailable_,     \* Config::unavailable_
    loaded_,          \* Config::loaded_
    settings,         \* the static members admin_password_ ... syslog_mark_interval_
    constructed,      \* a Config object has been constructed in this process
    primary,          \* the file /config.cbor
    backup,           \* the file /config.cbor~
    start_valid,      \* both files were loadable snapshots at the start
    io_failed,        \* a mount, open or write has failed (other than by a crash)
    persisted,        \* the settings of the last commit() that succeeded in every step
    setter_calls,     \* setter calls made so far
    commits,          \* commit() calls made so far
    boots,            \* restarts between operations so far
    last_cfg,         \* the Config operation that has just returned
    file_mutex,       \* App::file_mutex_: the owning thread and its lock count
    doing,            \* per thread: idle, in a shell command, in a Config operation
    command,          \* per thread: the command or operation it is in
    fs_call,          \* per thread: a filesystem call of the thread is in flight
    file_ops,         \* commands and Config operations started so far
    running_,         \* DynamicDNS::running_ in memory
    running_seen,     \* the value of running_ the loop thread reads (unsynchronised)
    thread_,          \* DynamicDNS::thread_.joinable()
    worker,           \* the worker thread: none, run, tail, exited
    worker_pending,   \* the stores the worker has still to make after run()
    last_attempt_,    \* DynamicDNS::last_attempt_ is non-zero
    loop_pc,          \* DynamicDNS::loop(): idle (not in the call), joining, joined
    last_loop,        \* what the last call of loop() read and did
    ddns_loops,       \* calls of loop() so far
    shell,            \* the console's shell: flags, context, what it is reading
    admin_password_,  \* Config::admin_password_ as the su command reads it
    shell_ops,        \* commands and prompts answered so far
    last_sh,          \* the command or prompt that has just been handled
    FS,               \* the filesystem the shell commands act on
    last_fs,          \* the filesystem command that has just been handled
    ptys_,            \* AppConsole::ptys_
    consoles,         \* the AppConsole objects: alive, pty_
    last_console      \* the console that has just been created or destroyed

cache_vars == <<device, heap, cache_p, block_index_p, cache_index_p, cache, block_index,
                cache_index, used_cache_size, fault, stray, alloc_failed, cache_ops,
                device_writes, last_io>>

config_vars == <<mounted_, unavailable_, loaded_, settings, constructed, primary, backup,
                 start_valid, io_failed, persisted, setter_calls, commits, boots, last_cfg>>

mutex_vars == <<file_mutex, doing, command, fs_call, file_ops>>

ddns_vars == <<running_, running_seen, thread_, worker, worker_pending, last_attempt_,
               loop_pc, last_loop, ddns_loops>>

pty_vars == <<ptys_, consoles, last_console>>

console_vars == <<shell, admin_password_, shell_ops, last_sh, FS, last_fs, pty_vars>>

thread_vars == <<mutex_vars, ddns_vars, console_vars>>

vars == <<cache_vars, config_vars, thread_vars>>

(***************************************************************************)
(* The underlying device (the __real_littlefs_api_* functions).            *)
(***************************************************************************)
\* The bytes a direct read of the device returns for (block, off, size).
DeviceBytes(dev, block, off, size) ==
    [i \in 1 .. size |-> dev[block * FILESYSTEM_BLOCK_SIZE + off + i - 1]]

InDevice(block, off, size) ==
    block * FILESYSTEM_BLOCK_SIZE + off + size <= DeviceSize

\* __real_littlefs_api_read: the outcomes <<status, bytes>> of one read; the
\* driver may fail any read, and fails a read beyond the device.
__real_littlefs_api_read(dev, block, off, size) ==
    {<<e, << >> >> : e \in DeviceErrors}
        \cup (IF InDevice(block, off, size)
              THEN {<<0, DeviceBytes(dev, block, off, size)>>}
              ELSE {})

\* The device content after data was programmed at (block, off).
Programmed(dev, block, off, data) ==
    [a \in DOMAIN dev |->
        LET i == a - (block * FILESYSTEM_BLOCK_SIZE + off)
        IN  IF i >= 0 /\ i < Len(data) THEN data[i + 1] ELSE dev[a]]

\* __real_littlefs_api_prog: outcomes <<status, device content>>; a failed
\* prog may or may not have changed the flash.
__real_littlefs_api_prog(dev, block, off, data) ==
    IF InDevice(block, off, Len(data))
    THEN {<<0, Programmed(dev, block, off, data)>>}
            \cup {<<e, d>> : e \in DeviceErrors,
                             d \in {dev, Programmed(dev, block, off, data)}}
    ELSE {<<e, dev>> : e \in DeviceErrors}

\* __real_littlefs_api_erase: an erased block reads as all ones.
__real_littlefs_api_erase(dev, block) ==
    LET erased == [i \in 1 .. FILESYSTEM_BLOCK_SIZE |-> 1]
    IN  IF InDevice(block, 0, FILESYSTEM_BLOCK_SIZE)
        THEN {<<0, Programmed(dev, block, 0, erased)>>}
                \cup {<<e, d>> : e \in DeviceErrors,
                                 d \in {dev, Programmed(dev, block, 0, erased)}}
        ELSE {<<e, dev>> : e \in DeviceErrors}

(***************************************************************************)
(* app::filesystem_cache.  The handlers work on a record of the statics.   *)
(***************************************************************************)
Statics ==
    [cache_p |-> cache_p, block_index_p |-> block_index_p,
     cache_index_p |-> cache_index_p, cache |-> cache,
     block_index |-> block_index, cache_index |-> cache_index,
     used_cache_size |-> used_cache_size, fault |-> fault, stray |-> stray,
     alloc_failed |-> alloc_failed]

\* What the heap of a device may be able to give init(): external RAM for
\* the cache buffer, DMA-capable RAM for each index array.
Heaps == [cache : BOOLEAN, block_index : BOOLEAN, cache_index : BOOLEAN]

\* What heap_caps_malloc() gives init(): each of the three allocations
\* succeeds or not, and the memory of cache_index holds anything.
AllocOutcomes ==
    {[cache |-> heap.cache, block_index |-> heap.block_index,
      cache_index |-> heap.cache_index, junk |-> j] : j \in [Slots -> UninitUint16]}

\* init(): allocates when cache is nullptr.  block_index is filled with 0xFF
\* twice; cache_index is never filled.  No result of heap_caps_malloc() is
\* tested, so memset() through a null block_index faults.
init(st, a) ==
    IF st.cache_p THEN st
    ELSE LET failed == st.alloc_failed \/ ~a.cache \/ ~a.block_index \/ ~a.cache_index
         IN  IF ~a.block_index
             THEN [st EXCEPT !.cache_p = a.cache, !.block_index_p = FALSE,
                             !.alloc_failed = TRUE, !.fault = TRUE]
             ELSE [st EXCEPT !.cache_p = a.cache,
                             !.cache = [s \in Slots |-> << >>],
                             !.block_index_p = TRUE,
                             !.block_index = [b \in Blocks |-> UINT16_MAX],
                             !.cache_index_p = a.cache_index,
                             !.cache_index = a.junk,
                             !.alloc_failed = failed]

\* (mutation of ClaimRandomSlot: the occupant's forward entry is not cleared)
ClaimRandomSlot_KeepOccupant(st, block, pos) ==
    IF ~st.cache_index_p THEN [st EXCEPT !.fault = TRUE]
    ELSE [st EXCEPT !.block_index[block] = pos, !.cache_index[pos] = block]

\* Lines 93-100: the cache is full, slot pos (= rand() % FILESYSTEM_CACHE_BLOCKS)
\* is taken over; the forward entry of its occupant is cleared first.
ClaimRandomSlot(st, block, pos) ==
    IF ~st.cache_index_p THEN [st EXCEPT !.fault = TRUE]
    ELSE LET old == st.cache_index[pos]
             cleared ==
                 IF old = UINT16_MAX THEN st
                 ELSE IF old \in Blocks
                      THEN [st EXCEPT !.block_index[old] = UINT16_MAX]
                      ELSE [st EXCEPT !.stray = TRUE]
         IN  [cleared EXCEPT !.block_index[block] = pos,
                             !.cache_index[pos] = block]

\* Lines 101-105: below capacity the next unused slot is taken.
ClaimNextSlot(st, block) ==
    IF ~st.cache_index_p THEN [st EXCEPT !.fault = TRUE]
    ELSE [st EXCEPT !.block_index[block] = st.used_cache_size,
                    !.cache_index[st.used_cache_size] = block,
                    !.used_cache_size = @ + 1]

\* (mutation of ClaimSlot: the next slot is taken whether or not one is left)
ClaimSlot_NeverFull(st, block) == {ClaimNextSlot(st, block)}

\* Lines 92-105: the states after a slot was chosen for the missing block.
ClaimSlot(st, block) ==
    IF st.used_cache_size >= FILESYSTEM_CACHE_BLOCKS
    THEN {ClaimRandomSlot(st, block, pos) : pos \in Slots}
    ELSE {ClaimNextSlot(st, block)}

\* (mutation of FetchFailed: the forward entry of the block is kept)
FetchFailed_KeepEntry(st, block) == st

\* Lines 112-116: the device read failed.  block_index[block] becomes the
\* sentinel, and the store that follows goes to cache_index[0xFFFF], beyond
\* the end of cache_index; the slot's own entry keeps naming the block.
FetchFailed(st, block) ==
    [st EXCEPT !.block_index[block] = UINT16_MAX, !.stray = TRUE]

\* Lines 107-109: the (block, off, size) of the device read of a miss.
FetchRange(block) == <<block, 0, FILESYSTEM_BLOCK_SIZE>>

\* Lines 107-116: fetch the whole block into its slot.  The outcomes are
\* <<state, status, the flash itself failed>>.  With a null cache buffer the
\* driver is handed an address near zero: it rejects it, or the copy faults.
Fetch(st, dev, block) ==
    LET slot == st.block_index[block]
    IN  IF ~st.cache_p
        THEN {<<[st EXCEPT !.fault = TRUE], 0, FALSE>>}
                \cup {<<FetchFailed(st, block), e, FALSE>> : e \in DeviceErrors}
        ELSE {IF r[1] = 0
              THEN <<[st EXCEPT !.cache[slot] = r[2]], 0, FALSE>>
              ELSE <<FetchFailed([st EXCEPT !.cache[slot] = << >>], block), r[1], TRUE>>
              : r \in __real_littlefs_api_read(dev, FetchRange(block)[1], FetchRange(block)[2],
                                              FetchRange(block)[3])}

\* Line 119: the bytes memcpy() takes from the slot of a cached block; a slot
\* whose content is indeterminate gives any bytes.
SlotBytes(st, block, off, n) ==
    LET slot == st.block_index[block]
    IN  IF slot \in Slots /\ st.cache[slot] # << >>
        THEN {SubSeq(st.cache[slot], off + 1, off + n)}
        ELSE ByteSeqs(n)

\* What a call of read() reports back: the statics, the status, the bytes put
\* into the caller's buffer, the block and slot of a failed fetch (-1: none),
\* the number of device reads made, whether the flash failed one of them, and
\* one record per in-range block the loop went through.
ReadResult(st, ret, out, fblock, fslot, nreads, deverr, trace) ==
    [st |-> st, ret |-> ret, out |-> out, fblock |-> fblock, fslot |-> fslot,
     nreads |-> nreads, deverr |-> deverr, trace |-> trace]

\* One pass of the loop of read() over an in-range block: whether line 92
\* found a forward entry, the (block, off, size) of the device reads issued,
\* the status of the last of them (0 if none was issued or it faulted),
\* the offset into the block and the number of bytes memcpy() gave the
\* caller, the slot the block had or
\* was given, and the index arrays and used_cache_size at line 92 and at the
\* end of the pass.
Visit(before, after, block, off, slot, devreads, status, copied) ==
    [block |-> block, off |-> off, hit |-> before.block_index[block] # UINT16_MAX,
     slot |-> slot, devreads |-> devreads, status |-> status,
     copied |-> copied,
     block_index |-> before.block_index, cache_index |-> before.cache_index,
     used |-> before.used_cache_size,
     block_index_after |-> after.block_index,
     cache_index_after |-> after.cache_index,
     used_after |-> after.used_cache_size,
     done |-> ~after.fault]

\* Lines 86-125: the loop of read() over consecutive blocks.
RECURSIVE ReadLoop(_, _, _, _, _, _, _, _)
ReadLoop(st, dev, block, off, out, size, nreads, trace) ==
    IF st.fault THEN {ReadResult(st, 0, out, -1, -1, nreads, FALSE, trace)}
    ELSE IF size = 0 THEN {ReadResult(st, 0, out, -1, -1, nreads, FALSE, trace)}
    ELSE IF block >= FILESYSTEM_BLOCKS
    THEN {ReadResult(st, r[1], out \o r[2], -1, -1, nreads + 1, r[1] # 0, trace)
          : r \in __real_littlefs_api_read(dev, block, off, size)}
    ELSE LET available == Min(FILESYSTEM_BLOCK_SIZE - off, size)
             Whole == FetchRange(block)
             Copy(s, n, slot, devreads) ==
                 UNION {ReadLoop(s, dev, block + 1, 0, out \o bytes,
                                 size - available, n,
                                 Append(trace, Visit(st, s, block, off, slot, devreads,
                                                     0, available)))
                        : bytes \in SlotBytes(s, block, off, available)}
         IN  IF st.block_index[block] = UINT16_MAX
             THEN UNION {
                    IF claimed.fault
                    THEN {ReadResult(claimed, 0, out, -1, -1, nreads, FALSE,
                                     Append(trace, Visit(st, claimed, block, off,
                                                         claimed.block_index[block], << >>,
                                                         0, 0)))}
                    ELSE UNION {
                           IF f[1].fault
                           THEN {ReadResult(f[1], 0, out, -1, -1, nreads + 1, FALSE,
                                            Append(trace, Visit(st, f[1], block, off,
                                                   claimed.block_index[block],
                                                   <<Whole>>, 0, 0)))}
                           ELSE IF f[2] # 0
                           THEN {ReadResult(f[1], f[2], out, block,
                                            claimed.block_index[block],
                                            nreads + 1, f[3],
                                            Append(trace, Visit(st, f[1], block, off,
                                                   claimed.block_index[block],
                                                   <<Whole>>, f[2], 0)))}
                           ELSE Copy(f[1], nreads + 1, claimed.block_index[block], <<Whole>>)
                           : f \in Fetch(claimed, dev, block)}
                    : claimed \in ClaimSlot(st, block)}
             ELSE Copy(st, nreads, st.block_index[block], << >>)

\* (mutation of FoldBlock: the block number is left as it was)
FoldBlock_Keep(block, off) == block

\* Lines 81-84 and 132-135: whole blocks are folded out of the offset.
FoldBlock(block, off) == block + (off \div FILESYSTEM_BLOCK_SIZE)

FoldOff(off) == off % FILESYSTEM_BLOCK_SIZE

\* read(): init(), fold the offset, run the loop.
read(st, a, dev, block, off, size) ==
    ReadLoop(init(st, a), dev, FoldBlock(block, off), FoldOff(off), << >>, size, 0,
             << >>)

\* (mutation of the invalidation of one block: nothing is dropped)
Invalidate_Nothing(st, block) == st

\* Lines 143-146: drop the block from both maps.
Invalidate(st, block) ==
    IF st.block_index[block] = UINT16_MAX THEN st
    ELSE IF ~st.cache_index_p THEN [st EXCEPT !.fault = TRUE]
    ELSE IF st.block_index[block] \in Slots
    THEN [st EXCEPT !.cache_index[st.block_index[block]] = UINT16_MAX,
                    !.block_index[block] = UINT16_MAX]
    ELSE [st EXCEPT !.stray = TRUE, !.block_index[block] = UINT16_MAX]

\* Lines 137-151: the loop of evict() over the blocks of the range.
RECURSIVE EvictLoop(_, _, _, _)
EvictLoop(st, block, off, size) ==
    IF size = 0 \/ st.fault THEN st
    ELSE IF block >= FILESYSTEM_BLOCKS THEN st
    ELSE EvictLoop(Invalidate(st, block), block + 1, 0,
                   size - Min(FILESYSTEM_BLOCK_SIZE - off, size))

\* (mutation of evict: nothing is invalidated)
evict_Nothing(st, block, off, size) == st

\* evict(): nothing to do while no slot was ever used.
evict(st, block, off, size) ==
    IF st.used_cache_size = 0 THEN st
    ELSE EvictLoop(st, FoldBlock(block, off), FoldOff(off), size)

(***************************************************************************)
(* The wrappers littlefs calls, one call at a time.                        *)
(***************************************************************************)
\* The in-range blocks that overlap size bytes from offset off of block.
Overlapping(block, off, size) ==
    {b \in Blocks :
        /\ b >= (block * FILESYSTEM_BLOCK_SIZE + off) \div FILESYSTEM_BLOCK_SIZE
        /\ b <= (block * FILESYSTEM_BLOCK_SIZE + off + size - 1) \div FILESYSTEM_BLOCK_SIZE}

\* The blocks of the range that a read would still serve from the cache.
StillCached(st, block, off, size) ==
    {b \in Overlapping(block, off, size) : st.block_index[b] # UINT16_MAX}

SetStatics(st) ==
    /\ cache_p' = st.cache_p
    /\ block_index_p' = st.block_index_p
    /\ cache_index_p' = st.cache_index_p
    /\ cache' = st.cache
    /\ block_index' = st.block_index
    /\ cache_index' = st.cache_index
    /\ used_cache_size' = st.used_cache_size
    /\ fault' = st.fault
    /\ stray' = st.stray
    /\ alloc_failed' = st.alloc_failed

NoIO == [op |-> "none", block |-> 0, off |-> 0, size |-> 0, ret |-> 0,
         out |-> << >>, fblock |-> -1, fslot |-> -1, nreads |-> 0,
         deverr |-> FALSE, cached_before |-> {}, cached_at_call |-> {},
         devret |-> 0, trace |-> << >>]

CacheRunning == ~fault /\ cache_ops < MaxCacheOps

\* The allocation outcomes that matter to this call: none once cache is set.
AllocChoices ==
    IF cache_p
    THEN {[cache |-> TRUE, block_index |-> TRUE, cache_index |-> TRUE,
           junk |-> [s \in Slots |-> UINT16_MAX]]}
    ELSE AllocOutcomes

__wrap_littlefs_api_read ==
    /\ CacheRunning
    /\ \E block \in 0 .. (DeviceBlocks - 1), shape \in ReadShapes, a \in AllocChoices :
          \E r \in read(Statics, a, device, block, shape[1], shape[2]) :
             /\ SetStatics(r.st)
             /\ last_io' = [NoIO EXCEPT !.op = "read", !.block = block,
                                        !.off = shape[1], !.size = shape[2],
                                        !.ret = r.ret, !.out = r.out,
                                        !.fblock = r.fblock, !.fslot = r.fslot,
                                        !.nreads = r.nreads, !.deverr = r.deverr,
                                        !.trace = r.trace]
    /\ cache_ops' = cache_ops + 1
    /\ UNCHANGED <<device, heap, device_writes>>
    /\ UNCHANGED config_vars
    /\ UNCHANGED thread_vars

__wrap_littlefs_api_prog ==
    /\ CacheRunning
    /\ device_writes < MaxDeviceWrites
    /\ device_writes' = device_writes + 1
    /\ UNCHANGED heap
    /\ \E block \in 0 .. (DeviceBlocks - 1), shape \in ProgShapes :
          \E data \in ProgData(shape[2]) :
             LET off == shape[1]
                 size == shape[2]
                 st == evict(Statics, block, off, size)
             IN  /\ SetStatics(st)
                 /\ IF st.fault
                    THEN /\ UNCHANGED device
                         /\ last_io' = [NoIO EXCEPT !.op = "prog"]
                    ELSE \E r \in __real_littlefs_api_prog(device, block, off, data) :
                            /\ device' = r[2]
                            /\ last_io' = [NoIO EXCEPT !.op = "prog", !.block = block,
                                                       !.off = off, !.size = size,
                                                       !.cached_before =
                                                           StillCached(Statics, block, off, size),
                                                       !.cached_at_call =
                                                           StillCached(st, block, off, size),
                                                       !.devret = r[1],
                                                       !.ret = r[1]]
    /\ cache_ops' = cache_ops + 1
    /\ UNCHANGED config_vars
    /\ UNCHANGED thread_vars

__wrap_littlefs_api_erase ==
    /\ CacheRunning
    /\ device_writes < MaxDeviceWrites
    /\ device_writes' = device_writes + 1
    /\ UNCHANGED heap
    /\ \E block \in 0 .. (DeviceBlocks - 1) :
          LET st == evict(Statics, block, 0, FILESYSTEM_BLOCK_SIZE)
          IN  /\ SetStatics(st)
              /\ IF st.fault
                 THEN /\ UNCHANGED device
                      /\ last_io' = [NoIO EXCEPT !.op = "erase"]
                 ELSE \E r \in __real_littlefs_api_erase(device, block) :
                         /\ device' = r[2]
                         /\ last_io' = [NoIO EXCEPT !.op = "erase", !.block = block,
                                                    !.size = FILESYSTEM_BLOCK_SIZE,
                                                    !.cached_before =
                                                        StillCached(Statics, block, 0,
                                                                    FILESYSTEM_BLOCK_SIZE),
                                                    !.cached_at_call =
                                                        StillCached(st, block, 0,
                                                                    FILESYSTEM_BLOCK_SIZE),
                                                    !.devret = r[1],
                                                    !.ret = r[1]]
    /\ cache_ops' = cache_ops + 1
    /\ UNCHANGED config_vars
    /\ UNCHANGED thread_vars

(***************************************************************************)
(* Configuration store (src/config.cpp), as built for the ESP32: long and  *)
(* unsigned long are 32 bits wide, uuid::log::Level is an 8-bit enum, the  *)
(* syslog_host setter validates, the filesystem is LittleFS.               *)
(*                                                                         *)
(* A std::string is a sequence of characters; NUL is the character '\0'.   *)
(* A CBOR stream is a sequence of data items; a write that is cut short    *)
(* leaves a proper prefix of the items.                                    *)
(***************************************************************************)
\* Number of setter calls explored in one run of the configuration store.
MaxSetterCalls == 1

\* Number of commit() calls explored in one run.
MaxCommits == 2

\* Number of restarts between operations explored in one run (a power loss
\* during a write is bounded by the number of commits).
MaxBoots == 1

kSelfDescribeTag == 55799

OFF == -1

NUL == "NUL"

\* MCU_APP_INTERNAL_CONFIG_DATA, in declaration order.
Fields == <<"admin_password", "hostname", "wifi_ssid", "wifi_password", "syslog_host",
            "syslog_level", "syslog_mark_interval">>

FieldNames == {Fields[i] : i \in DOMAIN Fields}

\* The fields declared with MCU_APP_CONFIG_SIMPLE (all std::string).
SimpleFields == {"admin_password", "hostname", "wifi_ssid", "wifi_password"}

\* The fields whose C++ type is std::string.
StringFields == SimpleFields \cup {"syslog_host"}

config_num_keys == Len(Fields)

\* const char* view of a std::string: the characters before the first NUL.
RECURSIVE c_str(_)
c_str(str) ==
    IF str = << >> \/ Head(str) = NUL
    THEN << >>
    ELSE <<Head(str)>> \o c_str(Tail(str))

DigitChars == <<"0", "1", "2", "3", "4", "5", "6", "7", "8", "9">>

IsDigit(c) == \E i \in DOMAIN DigitChars : DigitChars[i] = c

DigitValue(c) == (CHOOSE i \in DOMAIN DigitChars : DigitChars[i] = c) - 1

\* IPAddress::fromString on a C string: dotted quad, each part at most 255.
RECURSIVE fromString4(_, _, _, _)
fromString4(str, i, acc, dots) ==
    IF i > Len(str)
    THEN dots = 3
    ELSE IF IsDigit(str[i])
         THEN LET a == acc * 10 + DigitValue(str[i])
              IN  IF a > 255 THEN FALSE ELSE fromString4(str, i + 1, a, dots)
         ELSE IF str[i] = "."
              THEN IF dots = 3 THEN FALSE ELSE fromString4(str, i + 1, 0, dots + 1)
              ELSE FALSE

fromString(str) == fromString4(str, 1, 0, 0)

\* (mutation of the cast: the enumeration is taken as unsigned)
ToLevel_Unsigned(n) == n % 256

\* static_cast<uuid::log::Level>(long): the low 8 bits, signed.
ToLevel(n) == ((n + 128) % 256) - 128

\* Assignment of a uint64_t to unsigned long: the low 32 bits, taken as two
\* 16-bit halves.
ToUnsignedLong(n) == (n % 65536) + 65536 * ((n \div 65536) % 65536)

\* The static members as the C++ runtime initialises them: empty strings, zero.
StaticSettings ==
    [admin_password |-> << >>, hostname |-> << >>, wifi_ssid |-> << >>,
     wifi_password |-> << >>, syslog_host |-> << >>, syslog_level |-> 0,
     syslog_mark_interval |-> 0]

\* The generated setters: plain assignment.
MCU_APP_CONFIG_SIMPLE(st, name, value) == [st EXCEPT ![name] = value]

MCU_APP_CONFIG_PRIMITIVE(st, name, value) == [st EXCEPT ![name] = value]

\* (mutation of the setter: an invalid string leaves the field as it was)
syslog_host_KeepPrevious(st, value) ==
    IF fromString(c_str(value)) THEN [st EXCEPT !.syslog_host = value] ELSE st

\* Config::syslog_host(const std::string&): validated or cleared.
syslog_host(st, value) ==
    [st EXCEPT !.syslog_host = IF fromString(c_str(value)) THEN value ELSE << >>]

\* __name(value) for whichever field is named.
Setter(st, name, value) ==
    IF name = "syslog_host" THEN syslog_host(st, value)
    ELSE IF name \in SimpleFields THEN MCU_APP_CONFIG_SIMPLE(st, name, value)
    ELSE MCU_APP_CONFIG_PRIMITIVE(st, name, value)

\* The __read_default of each field.
DefaultOf(name) ==
    IF name = "syslog_level" THEN OFF
    ELSE IF name = "syslog_mark_interval" THEN 0
    ELSE << >>

RECURSIVE ApplyDefaults(_, _)
ApplyDefaults(st, i) ==
    IF i > Len(Fields)
    THEN st
    ELSE ApplyDefaults(Setter(st, Fields[i], DefaultOf(Fields[i])), i + 1)

\* The settings are left as they are.
read_config_defaults_Nothing(st) == st

read_config_defaults(st) == ApplyDefaults(st, 1)

(***************************************************************************)
(* CBOR data items.  t is the major type; s is the payload of a text item, *)
(* n the payload of the others.  A field name is one symbol of a key.      *)
(***************************************************************************)
TagItem(n) == [t |-> "tag", s |-> << >>, n |-> n]

MapItem(n) == [t |-> "map", s |-> << >>, n |-> n]

TextItem(str) == [t |-> "text", s |-> str, n |-> 0]

\* Writer::writeInt(int64_t): unsigned or negative integer item.
IntItem(n) == [t |-> IF n >= 0 THEN "uint" ELSE "nint", s |-> << >>, n |-> n]

\* write_map_value for the field's type.
write_map_value(name, value) ==
    IF name \in StringFields THEN TextItem(value) ELSE IntItem(value)

write_map_key(name) == TextItem(<<name>>)

RECURSIVE WriteFields(_, _)
WriteFields(st, i) ==
    IF i > Len(Fields)
    THEN << >>
    ELSE <<write_map_key(Fields[i]), write_map_value(Fields[i], st[Fields[i]])>>
            \o WriteFields(st, i + 1)

\* Config::write_config(cbor::Writer&), after writeTag in write_config(filename).
write_config_writer(st) ==
    <<TagItem(kSelfDescribeTag), MapItem(config_num_keys)>> \o WriteFields(st, 1)

\* The position behind the data item that starts at pos, nested items
\* included; 0 if the stream ends before the item is complete.
RECURSIVE SkipItems(_, _, _)
SkipItems(data, pos, count) ==
    IF count = 0 THEN pos
    ELSE IF pos > Len(data) THEN 0
    ELSE SkipItems(data, pos + 1,
                   count - 1 + (IF data[pos].t = "map" THEN 2 * data[pos].n
                                ELSE IF data[pos].t = "tag" THEN 1
                                ELSE 0))

ItemEnd(data, pos) == SkipItems(data, pos, 1)

ItemSize(data, pos) == ItemEnd(data, pos) - pos

\* Reader::isWellFormed(): the next data item is complete.
isWellFormed(data, pos) == ItemEnd(data, pos) # 0

\* expectValue(reader, kTag, kSelfDescribeTag) at the start of the file.
expectTag(data) ==
    /\ Len(data) >= 1
    /\ data[1].t = "tag"
    /\ data[1].n = kSelfDescribeTag

\* read_map_value succeeds for the field's type.
read_map_value_ok(name, item) ==
    IF name \in StringFields THEN item.t = "text"
    ELSE IF name = "syslog_level" THEN item.t \in {"uint", "nint"}
    ELSE item.t = "uint"

\* The value read_map_value produces and the decode loop hands to the setter.
read_map_value(name, item) ==
    IF name \in StringFields THEN c_str(item.s)
    ELSE IF name = "syslog_level" THEN ToLevel(item.n)
    ELSE ToUnsignedLong(item.n)

DecodeResult(ok, st) == [ok |-> ok, settings |-> st]

\* The while (length-- > 0) loop of read_config(cbor::Reader&).
RECURSIVE ReadEntries(_, _, _, _)
ReadEntries(data, pos, length, st) ==
    IF length = 0
    THEN DecodeResult(TRUE, st)
    ELSE IF pos > Len(data) \/ data[pos].t # "text"
         THEN DecodeResult(FALSE, st)
         ELSE LET key == c_str(data[pos].s)
              IN  IF \E name \in FieldNames : key = <<name>>
                  THEN LET name == key[1]
                       IN  IF pos + 1 > Len(data) \/ ~read_map_value_ok(name, data[pos + 1])
                           THEN DecodeResult(FALSE, st)
                           ELSE ReadEntries(data, pos + 2, length - 1,
                                    Setter(st, name, read_map_value(name, data[pos + 1])))
                  ELSE IF ~isWellFormed(data, pos + 1)
                       THEN DecodeResult(FALSE, st)
                       ELSE ReadEntries(data, pos + 1 + ItemSize(data, pos + 1),
                                        length - 1, st)

\* Config::read_config(cbor::Reader&): the reader stands behind the tag.
read_config_reader(data, st) ==
    IF Len(data) < 2 \/ data[2].t # "map"
    THEN DecodeResult(FALSE, st)
    ELSE ReadEntries(data, 3, data[2].n, st)

(***************************************************************************)
(* Files.                                                                  *)
(***************************************************************************)
Missing == [exists |-> FALSE, data |-> << >>]

FileOf(data) == [exists |-> TRUE, data |-> data]

\* (mutation of read_config(filename, load): the file is loaded whatever the
\* load argument)
read_config_AlwaysLoad(file, load, st) ==
    IF ~file.exists
    THEN DecodeResult(FALSE, st)
    ELSE IF ~expectTag(file.data) \/ ~isWellFormed(file.data, 2)
         THEN DecodeResult(FALSE, st)
         ELSE read_config_reader(file.data, st)

\* Config::read_config(filename, load).
read_config(file, load, st) ==
    IF ~file.exists
    THEN DecodeResult(FALSE, st)
    ELSE IF ~expectTag(file.data) \/ ~isWellFormed(file.data, 2)
         THEN DecodeResult(FALSE, st)
         ELSE IF load
              THEN read_config_reader(file.data, st)
              ELSE DecodeResult(TRUE, st)

\* What a write that is cut short leaves of the stream: a proper prefix.  Every
\* proper prefix is rejected by read_config(filename) in the same way (no tag,
\* or an incomplete map); the longest one stands for all of them.
TornPrefixes(data) == {SubSeq(data, 1, n) : n \in {Len(data) - 1}}

\* Config::write_config(filename): the value returned, the file left behind,
\* whether power was lost during the write, whether an open or write failed.
write_config(file, st) ==
    LET data == write_config_writer(st)
    IN  {[ret |-> FALSE, file |-> file, crash |-> FALSE, ioerr |-> TRUE]}
        \cup {[ret |-> TRUE, file |-> FileOf(data), crash |-> FALSE, ioerr |-> FALSE]}
        \cup {[ret |-> r, file |-> FileOf(d), crash |-> FALSE, ioerr |-> TRUE] :
                  r \in BOOLEAN, d \in TornPrefixes(data)}
        \cup {[ret |-> FALSE, file |-> FileOf(d), crash |-> TRUE, ioerr |-> FALSE] :
                  d \in TornPrefixes(data)}

\* FS_begin(true): mounted; mount failed, formatted, then mounted; or failed.
FS_begin == {"mounted", "formatted", "failed"}

\* A mount that has failed is not tried again.
ShouldMount_Retry(want) == ~mounted_ /\ want

\* if (!unavailable_ && !mounted_ && mount): FS_begin is called only if the
\* filesystem is neither mounted nor unavailable and the caller wants it mounted.
ShouldMount(want) == ~unavailable_ /\ ~mounted_ /\ want

\* Files are read whenever the filesystem is mounted.
ShouldLoad_Again(mounted) == mounted

\* if (mounted_ && !loaded_): the files are read once per process.
ShouldLoad(mounted) == mounted /\ ~loaded_

\* The outcomes of the mount step.
MountOutcomes(want) == IF ShouldMount(want) THEN FS_begin ELSE {"none"}

\* Stands for the outcome of a write_config call that is not made.
NotWritten(file) == {[ret |-> FALSE, file |-> file, crash |-> FALSE, ioerr |-> FALSE]}

\* The nested conditions of commit() under which the backup file is written.
ShouldWriteBackup_Unverified(written, verified) == written

ShouldWriteBackup(written, verified) == written /\ verified

NoCfg ==
    [op |-> "none", mount |-> FALSE, fs |-> "none", fresh |-> FALSE, loading |-> FALSE,
     source |-> "none", primary_written |-> FALSE, verified |-> FALSE,
     backup_written |-> FALSE, backup_before |-> Missing,
     opened |-> FALSE, primary_ok |-> FALSE, rejected |-> StaticSettings,
     unloaded |-> FALSE, unavailable_before |-> FALSE,
     settings_before |-> StaticSettings, host_set |-> FALSE, host_arg |-> << >>]

NotPersisted == [valid |-> FALSE, settings |-> StaticSettings]

\* The mount step shared by the constructor and commit().
MountStep(want, fs) ==
    LET try == ShouldMount(want)
    IN  [tried |-> try,
         fs |-> IF try THEN fs ELSE "none",
         mounted |-> IF try THEN fs # "failed" ELSE mounted_,
         unavailable |-> IF try THEN fs = "failed" ELSE unavailable_,
         primary |-> IF try /\ fs = "formatted" THEN Missing ELSE primary,
         backup |-> IF try /\ fs = "formatted" THEN Missing ELSE backup]

\* Config::Config(bool mount).
Config(mount) ==
    \E fs \in MountOutcomes(mount) :
       LET m == MountStep(mount, fs)
           loading == ShouldLoad(m.mounted)
           rp == read_config(m.primary, TRUE, settings)
           rb == read_config(m.backup, TRUE, rp.settings)
           from_file == loading /\ (rp.ok \/ rb.ok)
           st1 == IF ~loading THEN settings
                  ELSE IF rp.ok THEN rp.settings ELSE rb.settings
           loaded1 == loaded_ \/ from_file
           dflt == ~loaded1 /\ mount
       IN  /\ mounted_' = m.mounted
           /\ unavailable_' = m.unavailable
           /\ primary' = m.primary
           /\ backup' = m.backup
           /\ settings' = IF dflt THEN read_config_defaults(st1) ELSE st1
           /\ loaded_' = (loaded1 \/ dflt)
           /\ constructed' = TRUE
           /\ io_failed' = (io_failed \/ (m.tried /\ fs # "mounted"))
           /\ persisted' = IF m.tried /\ fs = "formatted" THEN NotPersisted ELSE persisted
           /\ last_cfg' = [NoCfg EXCEPT !.op = "Config", !.mount = mount, !.fs = m.fs,
                                        !.fresh = ~constructed, !.loading = loading,
                                        !.source = IF from_file
                                                   THEN (IF rp.ok THEN "primary" ELSE "backup")
                                                   ELSE IF dflt THEN "defaults" ELSE "none",
                                        !.backup_before = m.backup,
                                        !.opened = loading,
                                        !.unloaded = ~loaded_,
                                        !.unavailable_before = unavailable_,
                                        !.primary_ok = loading /\ rp.ok,
                                        !.rejected = IF loading /\ ~rp.ok
                                                     THEN rp.settings
                                                     ELSE StaticSettings]
           /\ UNCHANGED <<start_valid, setter_calls, commits, boots>>
           /\ UNCHANGED cache_vars
    /\ UNCHANGED thread_vars

\* Input values of the setters.
StringInputs == {<<"a">>, <<"a", NUL, "b">>}

HostInputs == {<<"1", ".", "1", ".", "1", ".", "1">>, <<"a">>}

LevelInputs == {OFF, 6}

IntervalInputs == {60}

SetterInputs(name) ==
    IF name \in SimpleFields THEN StringInputs
    ELSE IF name = "syslog_host" THEN HostInputs
    ELSE IF name = "syslog_level" THEN LevelInputs
    ELSE IntervalInputs

\* The setters called on the store: one of the four that MCU_APP_CONFIG_SIMPLE
\* generates from the same text, and the three written by hand or with a
\* type of their own.
SetFields == {"hostname", "syslog_host", "syslog_level", "syslog_mark_interval"}

\* A call of one of the setters on a Config object.
Set ==
    /\ constructed
    /\ setter_calls < MaxSetterCalls
    /\ setter_calls' = setter_calls + 1
    /\ \E name \in SetFields :
          \E value \in SetterInputs(name) :
             settings' = Setter(settings, name, value)
    /\ last_cfg' = [NoCfg EXCEPT !.op = "set", !.backup_before = backup,
                                 !.unavailable_before = unavailable_]
    /\ UNCHANGED <<mounted_, unavailable_, loaded_, constructed, primary, backup,
                   start_valid, io_failed, persisted, commits, boots>>
    /\ UNCHANGED cache_vars
    /\ UNCHANGED thread_vars

\* Static initialisation of a new process after a restart or power loss.
ProcessStart ==
    /\ mounted_' = FALSE
    /\ unavailable_' = FALSE
    /\ loaded_' = FALSE
    /\ settings' = StaticSettings
    /\ constructed' = FALSE

\* Config::commit().  Power may be lost during either write.
commit ==
    /\ constructed
    /\ commits < MaxCommits
    /\ commits' = commits + 1
    /\ \E fs \in MountOutcomes(TRUE) :
          LET m == MountStep(TRUE, fs)
          IN  \E wp \in (IF m.mounted THEN write_config(m.primary, settings)
                                      ELSE NotWritten(m.primary)) :
                 LET readback == IF m.mounted /\ ~wp.crash /\ wp.ret
                                 THEN read_config(wp.file, FALSE, settings)
                                 ELSE DecodeResult(FALSE, settings)
                     verified == readback.ok
                     to_backup == /\ m.mounted
                                  /\ ~wp.crash
                                  /\ ShouldWriteBackup(wp.ret, verified)
                 IN
              \E wb \in (IF to_backup THEN write_config(m.backup, settings)
                                      ELSE NotWritten(m.backup)) :
                 LET
                     crashed == wp.crash \/ wb.crash
                     info == [NoCfg EXCEPT !.fs = m.fs,
                                           !.primary_written = m.mounted /\ wp.ret,
                                           !.verified = m.mounted /\ verified,
                                           !.backup_written = to_backup,
                                           !.backup_before = m.backup,
                                           !.opened = m.mounted,
                                           !.unavailable_before = unavailable_,
                                           !.unloaded = ~loaded_,
                                           !.settings_before = settings]
                 IN  /\ primary' = IF m.mounted THEN wp.file ELSE m.primary
                     /\ backup' = IF to_backup THEN wb.file ELSE m.backup
                     /\ io_failed' = (\/ io_failed
                                      \/ (m.tried /\ fs # "mounted")
                                      \/ (m.mounted /\ wp.ioerr)
                                      \/ (to_backup /\ wb.ioerr))
                     /\ persisted' =
                           IF m.mounted
                           THEN (IF to_backup /\ wb.ret /\ ~wb.crash
                                 THEN [valid |-> TRUE, settings |-> settings]
                                 ELSE NotPersisted)
                           ELSE IF m.tried /\ fs = "formatted" THEN NotPersisted
                           ELSE persisted
                     /\ IF crashed
                        THEN /\ ProcessStart
                             /\ last_cfg' = [info EXCEPT !.op = "crash"]
                        ELSE /\ mounted_' = m.mounted
                             /\ unavailable_' = m.unavailable
                             /\ settings' = readback.settings
                             /\ last_cfg' = [info EXCEPT !.op = "commit"]
                             /\ UNCHANGED <<loaded_, constructed>>
    /\ UNCHANGED <<start_valid, setter_calls, boots>>
    /\ UNCHANGED cache_vars
    /\ UNCHANGED thread_vars

\* Config::umount().
umount ==
    /\ constructed
    /\ mounted_' = FALSE
    /\ last_cfg' = [NoCfg EXCEPT !.op = "umount", !.backup_before = backup,
                                 !.unavailable_before = unavailable_]
    /\ UNCHANGED <<unavailable_, loaded_, settings, constructed, primary, backup,
                   start_valid, io_failed, persisted, setter_calls, commits, boots>>
    /\ UNCHANGED cache_vars
    /\ UNCHANGED thread_vars

\* The device restarts between two operations.
Reboot ==
    /\ boots < MaxBoots
    /\ boots' = boots + 1
    /\ ProcessStart
    /\ last_cfg' = [NoCfg EXCEPT !.op = "reboot", !.backup_before = backup]
    /\ UNCHANGED <<primary, backup, start_valid, io_failed, persisted, setter_calls, commits>>
    /\ UNCHANGED cache_vars
    /\ UNCHANGED thread_vars

\* Settings found on the storage of a device that has been in use.
StoredSettings ==
    [StaticSettings EXCEPT !.admin_password = <<"b">>, !.hostname = <<"b">>,
                           !.syslog_level = OFF]

\* A snapshot written by an earlier commit().
StoredSnapshot == FileOf(write_config_writer(StoredSettings))

\* A snapshot whose write was cut short.
TornFile == FileOf(SubSeq(write_config_writer(StoredSettings), 1, 5))

\* A well-formed map in which the value of hostname has the wrong type.
MistypedFile ==
    FileOf(<<TagItem(kSelfDescribeTag), MapItem(2),
             write_map_key("admin_password"), TextItem(<<"c">>),
             write_map_key("hostname"), IntItem(5)>>)

\* A map written under an older schema, with fewer keys.
OlderFile ==
    FileOf(<<TagItem(kSelfDescribeTag), MapItem(1),
             write_map_key("hostname"), TextItem(<<"c">>)>>)

\* The primary and the backup file the storage may hold at the start.
InitialFiles ==
    {<<Missing, Missing>>,
     <<StoredSnapshot, StoredSnapshot>>,
     <<Missing, StoredSnapshot>>,
     <<TornFile, StoredSnapshot>>,
     <<StoredSnapshot, TornFile>>,
     <<MistypedFile, StoredSnapshot>>,
     <<MistypedFile, OlderFile>>,
     <<MistypedFile, TornFile>>,
     <<OlderFile, Missing>>}

\* read_config(filename) would return true for the file.
Loadable(file) == read_config(file, TRUE, StaticSettings).ok

\* Static initialisation of the configuration store over the given files.
ConfigStatics(p, b) ==
    /\ mounted_ = FALSE
    /\ unavailable_ = FALSE
    /\ loaded_ = FALSE
    /\ settings = StaticSettings
    /\ constructed = FALSE
    /\ primary = p
    /\ backup = b
    /\ start_valid = (Loadable(p) /\ Loadable(b))
    /\ io_failed = FALSE
    /\ persisted = NotPersisted
    /\ setter_calls = 0
    /\ commits = 0
    /\ boots = 0
    /\ last_cfg = [NoCfg EXCEPT !.backup_before = b]

\* The flash content at boot: neighbouring blocks differ.
InitialDevice == [a \in 0 .. (DeviceSize - 1) |-> (a \div FILESYSTEM_BLOCK_SIZE) % 2]

\* Static initialisation: null pointers, used_cache_size = 0.  The arrays do
\* not exist yet; their model values are placeholders until init() runs.
CacheStatics(h) ==
    /\ device = InitialDevice
    /\ heap = h
    /\ cache_p = FALSE
    /\ block_index_p = FALSE
    /\ cache_index_p = FALSE
    /\ cache = [s \in Slots |-> << >>]
    /\ block_index = [b \in Blocks |-> UINT16_MAX]
    /\ cache_index = [s \in Slots |-> UINT16_MAX]
    /\ used_cache_size = 0
    /\ fault = FALSE
    /\ stray = FALSE
    /\ alloc_failed = FALSE
    /\ cache_ops = 0
    /\ device_writes = 0
    /\ last_io = NoIO

(***************************************************************************)
(* Threads and App::file_mutex (src/src/app.h, src/src/console.cpp): the   *)
(* thread of the main loop and one more task of the application.           *)
(***************************************************************************)
MaxFileOps == 3

Threads == {"loop", "task"}

\* The shell commands that change files, each behind std::lock_guard.
FileCommands == {"cp", "mv", "write", "rm", "mkdir", "rmdir", "mkfs"}

\* Config(true) and Config::commit(): the mount, load and commit sequences.
ConfigSequences == {"Config", "commit"}

Unlocked == [owner |-> "none", count |-> 0]

\* What a call of DynamicDNS::loop() read and did.
NoLoop == [read_running |-> FALSE, joined |-> FALSE, cleared_at_join |-> FALSE,
           started |-> FALSE, updated |-> FALSE, worker_at_update |-> "none",
           thread_at_update |-> FALSE]

\* No console has been created and no admin password is configured.
\* Filenames are sequences of characters.
config_prefix == <<"/", "c", "o", "n", "f", "i", "g", ".">>

root_dir == <<"/">>
config_file == config_prefix \o <<"x">>
config_new == config_prefix \o <<"y">>
config_dir == config_prefix \o <<"d">>
plain_file == <<"/", "a">>
plain_dir == <<"/", "d">>
nested_config == plain_dir \o <<"/", "c", "o", "n", "f", "i", "g", ".", "x">>

\* The filesystem at start: the configuration file, a directory whose name
\* begins like it, a file and a directory holding a file named config.x.
ShellFiles == {config_file, plain_file, nested_config}
ShellDirs == {root_dir, config_dir, plain_dir}

NoFs == [op |-> "none", local |-> FALSE, from |-> << >>, to |-> << >>, to_final |-> << >>,
         msg |-> "", calls |-> << >>, files_before |-> {}, dirs_before |-> {}]

NoShell ==
    [exists |-> FALSE, flags |-> {}, context |-> "MAIN", mode |-> "command",
     password1 |-> << >>]

NoSh == [op |-> "none", admin_before |-> FALSE, context_before |-> "MAIN",
         completed |-> FALSE, password |-> << >>, configured |-> << >>]

\* Console objects that can be alive together.
MaxConsoles == 3

\* std::numeric_limits<size_t>::max(), the pty_ of the local console: stands
\* for a value no index of ptys_ reaches.
SIZE_MAX == -1

ConsoleIds == 1..MaxConsoles

NoConsole == [alive |-> FALSE, pty_ |-> SIZE_MAX]

NoPty == [op |-> "none", console |-> 0, pty_ |-> SIZE_MAX, held_before |-> {}, n |-> 0]

PtyStatics ==
    /\ ptys_ = << >>
    /\ consoles = [c \in ConsoleIds |-> NoConsole]
    /\ last_console = NoPty

FilesystemStatics ==
    /\ FS = [files |-> ShellFiles, dirs |-> ShellDirs, ops |-> 0]
    /\ last_fs = NoFs

ConsoleStatics ==
    /\ FilesystemStatics
    /\ PtyStatics
    /\ shell = NoShell
    /\ admin_password_ = << >>
    /\ shell_ops = 0
    /\ last_sh = NoSh

\* The mutex is free, both threads are idle, no DDNS worker has been started.
TaskStatics ==
    /\ file_mutex = Unlocked
    /\ doing = [t \in Threads |-> "idle"]
    /\ command = [t \in Threads |-> "none"]
    /\ fs_call = [t \in Threads |-> FALSE]
    /\ file_ops = 0
    /\ running_ = FALSE
    /\ running_seen = FALSE
    /\ thread_ = FALSE
    /\ worker = "none"
    /\ worker_pending = {}
    /\ last_attempt_ = FALSE
    /\ loop_pc = "idle"
    /\ last_loop = NoLoop
    /\ ddns_loops = 0

ThreadStatics == TaskStatics /\ ConsoleStatics

\* std::lock_guard lock{App::file_mutex()}: a recursive mutex, taken when
\* free or already owned by the thread.
lock(t) ==
    /\ file_mutex.owner \in {"none", t}
    /\ file_mutex' = [owner |-> t, count |-> file_mutex.count + 1]

\* ~lock_guard.
unlock(t) ==
    file_mutex' = IF file_mutex.count = 1 THEN Unlocked
                  ELSE [file_mutex EXCEPT !.count = file_mutex.count - 1]

\* A file-mutating shell command starts: the lock_guard is its first statement.
ShellCommand(t) ==
    /\ doing[t] = "idle"
    /\ file_ops < MaxFileOps
    /\ file_ops' = file_ops + 1
    /\ lock(t)
    /\ \E c \in FileCommands : command' = [command EXCEPT ![t] = c]
    /\ doing' = [doing EXCEPT ![t] = "shell"]
    /\ UNCHANGED fs_call
    /\ UNCHANGED <<cache_vars, config_vars, ddns_vars, console_vars>>

\* fs_valid_file, fs_valid_dir, fs_valid_mv_cp: the helper takes the mutex
\* again for its own scope.
ShellHelperEnter(t) ==
    /\ doing[t] = "shell"
    /\ command[t] \in {"cp", "mv", "rm", "mkdir", "rmdir"}
    /\ ~fs_call[t]
    /\ file_mutex.count = 1
    /\ lock(t)
    /\ UNCHANGED <<doing, command, fs_call, file_ops>>
    /\ UNCHANGED <<cache_vars, config_vars, ddns_vars, console_vars>>

ShellHelperLeave(t) ==
    /\ doing[t] = "shell"
    /\ ~fs_call[t]
    /\ file_mutex.count > 1
    /\ unlock(t)
    /\ UNCHANGED <<doing, command, fs_call, file_ops>>
    /\ UNCHANGED <<cache_vars, config_vars, ddns_vars, console_vars>>

\* The command returns: the lock_guard is destroyed.
ShellReturn(t) ==
    /\ doing[t] = "shell"
    /\ ~fs_call[t]
    /\ file_mutex.count = 1
    /\ unlock(t)
    /\ doing' = [doing EXCEPT ![t] = "idle"]
    /\ command' = [command EXCEPT ![t] = "none"]
    /\ UNCHANGED <<fs_call, file_ops>>
    /\ UNCHANGED <<cache_vars, config_vars, ddns_vars, console_vars>>

\* Config::Config(true) or Config::commit() is entered: neither function nor
\* its callers take App::file_mutex.
ConfigEnter(t) ==
    /\ doing[t] = "idle"
    /\ file_ops < MaxFileOps
    /\ file_ops' = file_ops + 1
    /\ \E c \in ConfigSequences : command' = [command EXCEPT ![t] = c]
    /\ doing' = [doing EXCEPT ![t] = "config"]
    /\ UNCHANGED <<file_mutex, fs_call>>
    /\ UNCHANGED <<cache_vars, config_vars, ddns_vars, console_vars>>

ConfigLeave(t) ==
    /\ doing[t] = "config"
    /\ ~fs_call[t]
    /\ doing' = [doing EXCEPT ![t] = "idle"]
    /\ command' = [command EXCEPT ![t] = "none"]
    /\ UNCHANGED <<file_mutex, fs_call, file_ops>>
    /\ UNCHANGED <<cache_vars, config_vars, ddns_vars, console_vars>>

\* A call into the filesystem (FS_begin, FS.open, a read or write of a file,
\* FS.rename, FS.remove, FS.mkdir, FS.rmdir, FS.format) starts.
FS_call(t) ==
    /\ doing[t] \in {"shell", "config"}
    /\ ~fs_call[t]
    /\ fs_call' = [fs_call EXCEPT ![t] = TRUE]
    /\ UNCHANGED <<file_mutex, doing, command, file_ops>>
    /\ UNCHANGED <<cache_vars, config_vars, ddns_vars, console_vars>>

\* The filesystem call returns.
FS_return(t) ==
    /\ fs_call[t]
    /\ fs_call' = [fs_call EXCEPT ![t] = FALSE]
    /\ UNCHANGED <<file_mutex, doing, command, file_ops>>
    /\ UNCHANGED <<cache_vars, config_vars, ddns_vars, console_vars>>

FileMutexInit ==
    /\ \E h \in Heaps : (\A k \in DOMAIN h : h[k]) /\ CacheStatics(h)
    /\ ConfigStatics(Missing, Missing)
    /\ ThreadStatics

FileMutexNext ==
    \/ \E t \in Threads : ShellCommand(t)
    \/ \E t \in Threads : ShellHelperEnter(t)
    \/ \E t \in Threads : ShellHelperLeave(t)
    \/ \E t \in Threads : ShellReturn(t)
    \/ \E t \in Threads : ConfigEnter(t)
    \/ \E t \in Threads : ConfigLeave(t)
    \/ \E t \in Threads : FS_call(t)
    \/ \E t \in Threads : FS_return(t)

SpecFileMutex == FileMutexInit /\ [][FileMutexNext]_vars

(***************************************************************************)
(* DynamicDNS (src/src/ddns.cpp): loop() on the main loop thread and the   *)
(* worker thread it starts.  running_ and last_attempt_ are plain members  *)
(* written by the worker and read by loop() without synchronisation: a     *)
(* store of the worker reaches the loop thread at some later moment, and   *)
(* the worker's two stores may be made in either order.                    *)
(***************************************************************************)
MaxLoops == 5

DDNSFrame == UNCHANGED <<cache_vars, config_vars, mutex_vars, console_vars>>

\* Joining waits for the worker whatever running_ is.
ShouldJoin_Always(running) == thread_

\* (mutation of ShouldJoin: the thread is never joined)
ShouldJoin_Never(running) == FALSE

\* if (!running_) { if (thread_.joinable()) thread_.join();
ShouldJoin(running) == ~running /\ thread_

\* loop() is called and reads running_ as true: nothing is done.
LoopSkip ==
    /\ loop_pc = "idle"
    /\ ddns_loops < MaxLoops
    /\ ddns_loops' = ddns_loops + 1
    /\ running_seen
    /\ ~ShouldJoin(running_seen)
    /\ last_loop' = [NoLoop EXCEPT !.read_running = TRUE]
    /\ UNCHANGED <<running_, running_seen, thread_, worker, worker_pending, last_attempt_,
                   loop_pc>>
    /\ DDNSFrame

\* loop() is called and calls thread_.join(), which blocks until the worker
\* thread has ended.
LoopJoin ==
    /\ loop_pc = "idle"
    /\ ddns_loops < MaxLoops
    /\ ddns_loops' = ddns_loops + 1
    /\ ShouldJoin(running_seen)
    /\ loop_pc' = "joining"
    /\ last_loop' = [NoLoop EXCEPT !.read_running = running_seen, !.joined = TRUE,
                                   !.cleared_at_join = (worker \in {"tail", "exited"}
                                                         /\ "running_" \notin worker_pending)]
    /\ UNCHANGED <<running_, running_seen, thread_, worker, worker_pending, last_attempt_>>
    /\ DDNSFrame

\* join() returns: the end of the thread synchronises with it.
LoopJoinReturn ==
    /\ loop_pc = "joining"
    /\ worker = "exited"
    /\ thread_' = FALSE
    /\ worker' = "none"
    /\ running_seen' = running_
    /\ loop_pc' = "joined"
    /\ UNCHANGED <<running_, worker_pending, last_attempt_, last_loop, ddns_loops>>
    /\ DDNSFrame

\* Lines 70-108: the rest of loop() with running_ read as false and no thread
\* to join: nothing to update, or no URL or password, or the worker is
\* started, or std::thread throws after running_ was set.
LoopUpdate ==
    /\ \/ loop_pc = "joined" /\ UNCHANGED ddns_loops
       \/ /\ loop_pc = "idle"
          /\ ddns_loops < MaxLoops
          /\ ddns_loops' = ddns_loops + 1
          /\ ~running_seen
          /\ ~ShouldJoin(running_seen)
    /\ loop_pc' = "idle"
    /\ \E outcome \in {"nothing", "unconfigured", "started", "throws"} :
          /\ last_loop' = [(IF loop_pc = "joined" THEN last_loop ELSE NoLoop)
                               EXCEPT !.started = (outcome = "started"),
                                      !.updated = TRUE,
                                      !.worker_at_update = worker,
                                      !.thread_at_update = thread_]
          /\ running_' = IF outcome \in {"started", "throws"} THEN TRUE ELSE running_
          /\ running_seen' = IF outcome \in {"started", "throws"} THEN TRUE ELSE running_seen
          /\ thread_' = IF outcome = "started" THEN TRUE ELSE thread_
          /\ worker' = IF outcome = "started" THEN "run" ELSE worker
          /\ last_attempt_' = IF outcome \in {"unconfigured", "throws"} THEN TRUE
                              ELSE last_attempt_
    /\ UNCHANGED worker_pending
    /\ DDNSFrame

\* The worker: run() returns, or throws and the exception is caught.
WorkerRun ==
    /\ worker = "run"
    /\ worker' = "tail"
    /\ worker_pending' = {"last_attempt_", "running_"}
    /\ UNCHANGED <<running_, running_seen, thread_, last_attempt_, loop_pc, last_loop,
                   ddns_loops>>
    /\ DDNSFrame

\* Lines 97-98: last_attempt_ = uuid::get_uptime_ms(); running_ = false;
\* two plain stores, made in either order.
WorkerStore ==
    /\ worker = "tail"
    /\ \E x \in worker_pending :
          /\ worker_pending' = worker_pending \ {x}
          /\ running_' = IF x = "running_" THEN FALSE ELSE running_
          /\ last_attempt_' = IF x = "last_attempt_" THEN TRUE ELSE last_attempt_
    /\ UNCHANGED <<running_seen, thread_, worker, loop_pc, last_loop, ddns_loops>>
    /\ DDNSFrame

\* The thread function returns.
WorkerExit ==
    /\ worker = "tail"
    /\ worker_pending = {}
    /\ worker' = "exited"
    /\ UNCHANGED <<running_, running_seen, thread_, worker_pending, last_attempt_, loop_pc,
                   last_loop, ddns_loops>>
    /\ DDNSFrame

\* The worker's store to running_ reaches the loop thread.
StoreVisible ==
    /\ running_seen # running_
    /\ running_seen' = running_
    /\ UNCHANGED <<running_, thread_, worker, worker_pending, last_attempt_, loop_pc,
                   last_loop, ddns_loops>>
    /\ DDNSFrame

DDNSInit ==
    /\ \E h \in Heaps : (\A k \in DOMAIN h : h[k]) /\ CacheStatics(h)
    /\ ConfigStatics(Missing, Missing)
    /\ ThreadStatics

DDNSNext ==
    \/ LoopSkip
    \/ LoopJoin
    \/ LoopJoinReturn
    \/ LoopUpdate
    \/ WorkerRun
    \/ WorkerStore
    \/ WorkerExit
    \/ StoreVisible

SpecDDNS == DDNSInit /\ [][DDNSNext]_vars

(***************************************************************************)
(* The shell of a console (src/src/console.cpp): the su, passwd, fs, exit  *)
(* and logout commands and the password prompts, on a console created      *)
(* local (serial) or not (telnet).                                         *)
(***************************************************************************)
\* Commands and prompt answers explored in one run of the shell.
MaxShellOps == 11

\* What is typed at a password prompt.
PasswordInputs == {<< >>, <<"a">>, <<"b">>}

\* The admin passwords found configured when the first console is created.
ConfiguredPasswords == {<< >>, <<"a">>}

has_flags(sh, flag) == flag \in sh.flags

ShellFrame == UNCHANGED <<cache_vars, config_vars, mutex_vars, ddns_vars, FS, last_fs, pty_vars>>

\* The shell reads a command line and the command is available to it.
CanInvoke(context, flag) ==
    /\ shell.exists
    /\ shell.mode = "command"
    /\ shell.context \in context
    /\ has_flags(shell, flag)
    /\ shell_ops < MaxShellOps

\* What a command notes of the shell it was given.
ShInfo(op) ==
    [NoSh EXCEPT !.op = op, !.admin_before = has_flags(shell, "ADMIN"),
                 !.context_before = shell.context, !.configured = admin_password_]

\* AppConsole::AppConsole: flags USER | LOCAL for the serial console, USER
\* for a telnet connection.
AppConsole(local) ==
    /\ ~shell.exists
    /\ shell_ops < MaxShellOps
    /\ shell_ops' = shell_ops + 1
    /\ shell' = [NoShell EXCEPT !.exists = TRUE,
                                !.flags = IF local THEN {"USER", "LOCAL"} ELSE {"USER"}]
    /\ last_sh' = [NoSh EXCEPT !.op = "AppConsole", !.configured = admin_password_]
    /\ UNCHANGED admin_password_
    /\ ShellFrame

\* become_admin: shell.add_flags(CommandFlags::ADMIN).
become_admin(sh) == [sh EXCEPT !.flags = @ \cup {"ADMIN"}]

\* (mutation of the test of the su prompt: the empty password is not excluded)
PasswordAccepted_Equal(password, configured) == password = configured

\* if (!password.empty() && password == Config().admin_password())
PasswordAccepted(password, configured) == password # << >> /\ password = configured

\* The su command: nothing for an admin, ADMIN at once on the local console,
\* the password prompt otherwise.
su ==
    /\ CanInvoke({"MAIN"}, "USER")
    /\ shell_ops' = shell_ops + 1
    /\ shell' = IF has_flags(shell, "ADMIN") THEN shell
                ELSE IF has_flags(shell, "LOCAL") THEN become_admin(shell)
                ELSE [shell EXCEPT !.mode = "su_password"]
    /\ last_sh' = ShInfo("su")
    /\ UNCHANGED admin_password_
    /\ ShellFrame

\* The function given to enter_password by su: called with the password when
\* the prompt is completed, with completed = false when it is abandoned.  A
\* wrong password is answered after INVALID_PASSWORD_DELAY_MS.
su_password ==
    /\ shell.exists
    /\ shell.mode = "su_password"
    /\ shell_ops < MaxShellOps
    /\ shell_ops' = shell_ops + 1
    /\ \E completed \in BOOLEAN, password \in PasswordInputs :
          /\ shell' = IF completed /\ PasswordAccepted(password, admin_password_)
                      THEN become_admin([shell EXCEPT !.mode = "command"])
                      ELSE [shell EXCEPT !.mode = "command"]
          /\ last_sh' = [ShInfo("su_password") EXCEPT !.completed = completed,
                                                      !.password = password]
    /\ UNCHANGED admin_password_
    /\ ShellFrame

\* The passwd command (ADMIN): the first prompt.
passwd ==
    /\ CanInvoke({"MAIN"}, "ADMIN")
    /\ shell_ops' = shell_ops + 1
    /\ shell' = [shell EXCEPT !.mode = "passwd1"]
    /\ last_sh' = ShInfo("passwd")
    /\ UNCHANGED admin_password_
    /\ ShellFrame

\* The first prompt of passwd is answered: the second prompt, if completed.
passwd_password1 ==
    /\ shell.exists
    /\ shell.mode = "passwd1"
    /\ shell_ops < MaxShellOps
    /\ shell_ops' = shell_ops + 1
    /\ \E completed \in BOOLEAN, password \in PasswordInputs :
          /\ shell' = IF completed
                      THEN [shell EXCEPT !.mode = "passwd2", !.password1 = password]
                      ELSE [shell EXCEPT !.mode = "command"]
          /\ last_sh' = [ShInfo("passwd_password1") EXCEPT !.completed = completed,
                                                           !.password = password]
    /\ UNCHANGED admin_password_
    /\ ShellFrame

\* The second prompt of passwd is answered: config.admin_password(password2)
\* if it was completed with the same password.
passwd_password2 ==
    /\ shell.exists
    /\ shell.mode = "passwd2"
    /\ shell_ops < MaxShellOps
    /\ shell_ops' = shell_ops + 1
    /\ \E completed \in BOOLEAN, password \in PasswordInputs :
          /\ shell' = [shell EXCEPT !.mode = "command", !.password1 = << >>]
          /\ admin_password_' = IF completed /\ shell.password1 = password
                                THEN password ELSE admin_password_
          /\ last_sh' = [ShInfo("passwd_password2") EXCEPT !.completed = completed,
                                                           !.password = password]
    /\ ShellFrame

\* The fs command (ADMIN): enters the filesystem context.
fs ==
    /\ CanInvoke({"MAIN"}, "ADMIN")
    /\ shell_ops' = shell_ops + 1
    /\ shell' = [shell EXCEPT !.context = "FILESYSTEM"]
    /\ last_sh' = ShInfo("fs")
    /\ UNCHANGED admin_password_
    /\ ShellFrame

\* shell.stop(): the console is closed.
main_exit_user_function(sh) == [sh EXCEPT !.exists = FALSE]

\* shell.remove_flags(CommandFlags::ADMIN).
main_exit_admin_function(sh) == [sh EXCEPT !.flags = @ \ {"ADMIN"}]

main_exit_function(sh) ==
    IF has_flags(sh, "ADMIN") THEN main_exit_admin_function(sh)
    ELSE main_exit_user_function(sh)

main_logout_function(sh) ==
    main_exit_user_function(IF has_flags(sh, "ADMIN")
                            THEN main_exit_admin_function(sh) ELSE sh)

\* shell.exit_context(): back to the main context.
generic_exit_context_function(sh) == [sh EXCEPT !.context = "MAIN"]

\* The exit command as registered for the context the shell is in.
exit_command(sh) ==
    IF sh.context = "MAIN" THEN main_exit_function(sh)
    ELSE generic_exit_context_function(sh)

\* The exit command.
exit ==
    /\ CanInvoke({"MAIN", "FILESYSTEM"}, "USER")
    /\ shell_ops' = shell_ops + 1
    /\ shell' = exit_command(shell)
    /\ last_sh' = ShInfo("exit")
    /\ UNCHANGED admin_password_
    /\ ShellFrame

\* The logout command.
logout ==
    /\ CanInvoke({"MAIN", "FILESYSTEM"}, "USER")
    /\ shell_ops' = shell_ops + 1
    /\ shell' = main_logout_function(shell)
    /\ last_sh' = ShInfo("logout")
    /\ UNCHANGED admin_password_
    /\ ShellFrame

\* AppShell::end_of_transmission (Ctrl-D at the command prompt): exit in a
\* context other than the main one or as admin, logout otherwise.
end_of_transmission ==
    /\ CanInvoke({"MAIN", "FILESYSTEM"}, "USER")
    /\ shell_ops' = shell_ops + 1
    /\ shell' = IF shell.context # "MAIN" \/ has_flags(shell, "ADMIN")
                THEN exit_command(shell)
                ELSE main_logout_function(shell)
    /\ last_sh' = ShInfo(IF shell.context # "MAIN" \/ has_flags(shell, "ADMIN")
                         THEN "exit" ELSE "logout")
    /\ UNCHANGED admin_password_
    /\ ShellFrame

ShellInit ==
    /\ \E h \in Heaps : (\A k \in DOMAIN h : h[k]) /\ CacheStatics(h)
    /\ ConfigStatics(Missing, Missing)
    /\ TaskStatics
    /\ shell = NoShell
    /\ admin_password_ \in ConfiguredPasswords
    /\ shell_ops = 0
    /\ last_sh = NoSh
    /\ FilesystemStatics
    /\ PtyStatics

ShellNext ==
    \/ \E local \in BOOLEAN : AppConsole(local)
    \/ su
    \/ su_password
    \/ passwd
    \/ passwd_password1
    \/ passwd_password2
    \/ fs
    \/ exit
    \/ logout
    \/ end_of_transmission

SpecShell == ShellInit /\ [][ShellNext]_vars

(***************************************************************************)
(* The filesystem commands of the shell (src/src/console.cpp) and the      *)
(* filename functions they use (src/util.cpp).                             *)
(***************************************************************************)
\* Filesystem commands explored in one run.
MaxFsOps == 2

HasPrefix(str, prefix) ==
    Len(str) >= Len(prefix) /\ SubSeq(str, 1, Len(prefix)) = prefix

\* output.rfind('/', pos) for pos = from - 1: the last '/' at or before from
\* (counted from 1), 0 for npos.
RFindSlash(output, from) ==
    LET found == {k \in 1..from : output[k] = "/"}
    IN  IF found = {} THEN 0 ELSE CHOOSE k \in found : \A j \in found : j <= k

\* The ".." step of normalise_filename: pos = output.rfind('/', output.length()
\* - 2), where length() - 2 wraps around for a length below 2 and the search
\* then covers the whole string; output.resize(pos + 1), or 0 for npos.
ParentOutput(output) ==
    LET from == IF Len(output) >= 2 THEN Len(output) - 1 ELSE Len(output)
    IN  SubSeq(output, 1, RFindSlash(output, from))

\* filename.find('/', i): the first '/' at or after i, 0 for npos.
FindSlash(filename, i) ==
    LET found == {k \in i..Len(filename) : filename[k] = "/"}
    IN  IF found = {} THEN 0 ELSE CHOOSE k \in found : \A j \in found : k <= j

\* The loop of normalise_filename with i counted from 1; filename[length()]
\* reads as the terminating NUL.
RECURSIVE NormaliseLoop(_, _, _)
NormaliseLoop(filename, i, output) ==
    IF i > Len(filename) THEN output
    ELSE
        LET at(k) == IF k <= Len(filename) THEN filename[k] ELSE "NUL"
            rest == Len(filename) - (i - 1)
            segment_start == output = << >> \/ output[Len(output)] = "/"
            pos == FindSlash(filename, i)
            end == IF pos # 0 THEN pos ELSE Len(filename)
        IN  IF segment_start /\ at(i) = "/" /\ output # << >>
            THEN NormaliseLoop(filename, i + 1, output)
            ELSE IF segment_start /\ at(i) = "." /\ (rest < 2 \/ at(i + 1) = "/")
            THEN NormaliseLoop(filename, i + 2, output)
            ELSE IF /\ segment_start
                    /\ at(i) = "."
                    /\ at(i + 1) = "."
                    /\ (rest < 3 \/ at(i + 2) = "/")
            THEN NormaliseLoop(filename, i + 3, ParentOutput(output))
            ELSE NormaliseLoop(filename, end + 1, output \o SubSeq(filename, i, end))

normalise_filename(filename) == NormaliseLoop(filename, 1, << >>)

\* base_filename: what follows the last '/' of the filename as given (the
\* normalised path it computes is not used for the result).
base_filename(filename) ==
    SubSeq(filename, RFindSlash(filename, Len(filename)) + 1, Len(filename))

\* (mutation of fs_allowed: the filename is compared as given)
fs_allowed_Raw(sh, filename) ==
    has_flags(sh, "LOCAL") \/ ~HasPrefix(filename, config_prefix)

\* fs_allowed: path.find("/config.", 0) != 0 on the normalised filename,
\* unless the shell is local.
fs_allowed(sh, filename) ==
    has_flags(sh, "LOCAL") \/ ~HasPrefix(normalise_filename(filename), config_prefix)

\* The file the filesystem takes a filename to name: the normalised filename
\* without a trailing '/'.  A filename that does not start at the root names
\* nothing.
Resolve(filename) ==
    LET path == normalise_filename(filename)
    IN  IF Len(path) > 1 /\ path[Len(path)] = "/" THEN SubSeq(path, 1, Len(path) - 1)
        ELSE path

Rooted(key) == HasPrefix(key, root_dir)

\* FS.open(filename) gives a file / file.isDirectory().
FS_exists(fsys, filename) == Resolve(filename) \in fsys.files \cup fsys.dirs
FS_isDirectory(fsys, filename) == Resolve(filename) \in fsys.dirs

Children(fsys, key) ==
    {k \in fsys.files \cup fsys.dirs : k # key /\ HasPrefix(k, IF key = root_dir THEN key ELSE key \o <<"/">>)}

\* A call of the filesystem that reads content or changes the filesystem.
FsCall(call, path, path2) == [call |-> call, path |-> path, path2 |-> path2]

\* What a command does: its last message, its calls and the filesystem after.
FsResult(msg, calls, fsys) == [msg |-> msg, calls |-> calls, fs |-> fsys, to_final |-> << >>]

Moved(key, from, to) ==
    IF key = from \/ HasPrefix(key, from \o <<"/">>)
    THEN to \o SubSeq(key, Len(from) + 1, Len(key))
    ELSE key

\* FS.rename(from, to).
FS_rename(fsys, from_filename, to_filename) ==
    LET from == Resolve(from_filename)
        to == Resolve(to_filename)
        ok == /\ from \in fsys.files \cup fsys.dirs
              /\ from # root_dir
              /\ Rooted(to)
              /\ to # root_dir
              /\ to # from
              /\ ~HasPrefix(to, from \o <<"/">>)
              /\ to \notin fsys.dirs
              /\ from \in fsys.dirs => to \notin fsys.files
    IN  IF ok
        THEN [ok |-> TRUE,
              fs |-> [fsys EXCEPT !.files = {Moved(k, from, to) : k \in fsys.files \ {to}},
                                !.dirs = {Moved(k, from, to) : k \in fsys.dirs}]]
        ELSE [ok |-> FALSE, fs |-> fsys]

\* FS.remove(filename).
FS_remove(fsys, filename) ==
    IF Resolve(filename) \in fsys.files
    THEN [ok |-> TRUE, fs |-> [fsys EXCEPT !.files = @ \ {Resolve(filename)}]]
    ELSE [ok |-> FALSE, fs |-> fsys]

\* FS.mkdir(dirname).
FS_mkdir(fsys, dirname) ==
    IF Rooted(Resolve(dirname)) /\ Resolve(dirname) \notin fsys.files \cup fsys.dirs
    THEN [ok |-> TRUE, fs |-> [fsys EXCEPT !.dirs = @ \cup {Resolve(dirname)}]]
    ELSE [ok |-> FALSE, fs |-> fsys]

\* FS.rmdir(dirname).
FS_rmdir(fsys, dirname) ==
    IF /\ Resolve(dirname) \in fsys.dirs
       /\ Resolve(dirname) # root_dir
       /\ Children(fsys, Resolve(dirname)) = {}
    THEN [ok |-> TRUE, fs |-> [fsys EXCEPT !.dirs = @ \ {Resolve(dirname)}]]
    ELSE [ok |-> FALSE, fs |-> fsys]

\* FS.open(filename, "w", true).
FS_open_w(fsys, filename) ==
    IF Rooted(Resolve(filename)) /\ Resolve(filename) \notin fsys.dirs
    THEN [ok |-> TRUE, fs |-> [fsys EXCEPT !.files = @ \cup {Resolve(filename)}]]
    ELSE [ok |-> FALSE, fs |-> fsys]

\* fs_valid_file: "ok" or the message printed.
fs_valid_file(sh, fsys, filename, allow_dir) ==
    IF ~FS_exists(fsys, filename) THEN "file not found"
    ELSE IF FS_isDirectory(fsys, filename) /\ ~allow_dir THEN "is a directory"
    ELSE IF ~fs_allowed(sh, filename) THEN "access denied"
    ELSE "ok"

\* fs_valid_dir: "ok" or the message printed.
fs_valid_dir(sh, fsys, dirname, must_exist) ==
    IF FS_exists(fsys, dirname) /\ ~FS_isDirectory(fsys, dirname) THEN "is not a directory"
    ELSE IF ~FS_exists(fsys, dirname) /\ must_exist THEN "directory not found"
    ELSE IF ~fs_allowed(sh, dirname) THEN "access denied"
    ELSE "ok"

\* to_filename with the base name of from_filename appended.
InDirectory(to_filename, from_filename) ==
    (IF to_filename[Len(to_filename)] # "/" THEN to_filename \o <<"/">> ELSE to_filename)
        \o base_filename(from_filename)

\* fs_valid_mv_cp: "ok" or the message printed, and to_filename as it leaves it.
fs_valid_mv_cp(sh, fsys, from_filename, to_filename, allow_dir) ==
    LET to2 == InDirectory(to_filename, from_filename)
    IN  IF fs_valid_file(sh, fsys, from_filename, allow_dir) # "ok"
        THEN [msg |-> fs_valid_file(sh, fsys, from_filename, allow_dir), to |-> to_filename]
        ELSE IF ~fs_allowed(sh, to_filename)
        THEN [msg |-> "access denied", to |-> to_filename]
        ELSE IF to_filename # << >> /\ FS_isDirectory(fsys, to_filename)
        THEN IF ~fs_allowed(sh, to2) THEN [msg |-> "access denied", to |-> to2]
             ELSE IF FS_isDirectory(fsys, to2) THEN [msg |-> "is a directory", to |-> to2]
             ELSE [msg |-> "ok", to |-> to2]
        ELSE [msg |-> "ok", to |-> to_filename]

\* The mv command.
mv_command(sh, fsys, from_filename, to_filename) ==
    LET valid == fs_valid_mv_cp(sh, fsys, from_filename, to_filename, TRUE)
        renamed == FS_rename(fsys, from_filename, valid.to)
    IN  [(IF valid.msg # "ok" THEN FsResult(valid.msg, << >>, fsys)
          ELSE IF ~renamed.ok THEN FsResult("error", << >>, fsys)
          ELSE FsResult("", <<FsCall("rename", from_filename, valid.to)>>, renamed.fs))
         EXCEPT !.to_final = valid.to]

\* The cp command.
cp_command(sh, fsys, from_filename, to_filename) ==
    LET valid == fs_valid_mv_cp(sh, fsys, from_filename, to_filename, FALSE)
        to_file == FS_open_w(fsys, valid.to)
    IN  [(IF valid.msg # "ok" THEN FsResult(valid.msg, << >>, fsys)
          ELSE IF ~to_file.ok THEN FsResult("open error", << >>, fsys)
          ELSE FsResult("", <<FsCall("open_w", valid.to, << >>),
                              FsCall("read", from_filename, << >>),
                              FsCall("write", valid.to, << >>)>>, to_file.fs))
         EXCEPT !.to_final = valid.to]

\* The rm command.
rm_command(sh, fsys, filename) ==
    IF fs_valid_file(sh, fsys, filename, FALSE) # "ok"
    THEN FsResult(fs_valid_file(sh, fsys, filename, FALSE), << >>, fsys)
    ELSE IF ~FS_remove(fsys, filename).ok THEN FsResult("error", << >>, fsys)
    ELSE FsResult("", <<FsCall("remove", filename, << >>)>>, FS_remove(fsys, filename).fs)

\* The mkdir command.
mkdir_command(sh, fsys, dirname) ==
    IF fs_valid_dir(sh, fsys, dirname, FALSE) # "ok"
    THEN FsResult(fs_valid_dir(sh, fsys, dirname, FALSE), << >>, fsys)
    ELSE IF ~FS_mkdir(fsys, dirname).ok THEN FsResult("error", << >>, fsys)
    ELSE FsResult("", <<FsCall("mkdir", dirname, << >>)>>, FS_mkdir(fsys, dirname).fs)

\* The rmdir command.
rmdir_command(sh, fsys, dirname) ==
    IF fs_valid_dir(sh, fsys, dirname, TRUE) # "ok"
    THEN FsResult(fs_valid_dir(sh, fsys, dirname, TRUE), << >>, fsys)
    ELSE IF ~FS_rmdir(fsys, dirname).ok THEN FsResult("error", << >>, fsys)
    ELSE FsResult("", <<FsCall("rmdir", dirname, << >>)>>, FS_rmdir(fsys, dirname).fs)

\* The read command.
read_command(sh, fsys, filename) ==
    IF ~FS_exists(fsys, filename) THEN FsResult("file not found", << >>, fsys)
    ELSE IF FS_isDirectory(fsys, filename) THEN FsResult("is a directory", << >>, fsys)
    ELSE IF ~fs_allowed(sh, filename) THEN FsResult("access denied", << >>, fsys)
    ELSE FsResult("read", <<FsCall("read", filename, << >>)>>, fsys)

\* The write command with the function it blocks the shell with: the data is
\* entered up to Ctrl-D (entered) or the entry is interrupted or in error.
write_command(sh, fsys, filename, entered) ==
    IF FS_exists(fsys, filename) /\ FS_isDirectory(fsys, filename)
    THEN FsResult("is a directory", << >>, fsys)
    ELSE IF ~fs_allowed(sh, filename) THEN FsResult("access denied", << >>, fsys)
    ELSE IF ~entered THEN FsResult("Interrupted", << >>, fsys)
    ELSE IF ~FS_open_w(fsys, filename).ok THEN FsResult("unable to open for writing", << >>, fsys)
    ELSE FsResult("write", <<FsCall("open_w", filename, << >>),
                             FsCall("write", filename, << >>)>>, FS_open_w(fsys, filename).fs)

\* The filenames given to the commands.
FileInputs ==
    {<< >>, root_dir, config_file, config_new, config_dir, plain_file, plain_dir,
     nested_config,
     plain_dir \o <<"/">>,
     <<"/", "b">>,
     Tail(config_file),
     root_dir \o config_file,
     <<"/", ".">> \o config_file,
     plain_dir \o <<"/", ".", ".">> \o config_file,
     config_dir \o <<"/", ".", ".", "/", "a">>}

FsFrame ==
    UNCHANGED <<cache_vars, config_vars, mutex_vars, ddns_vars,
                shell, admin_password_, shell_ops, last_sh, pty_vars>>

\* The shell reads a command line in the filesystem context as admin.
CanInvokeFs ==
    /\ shell.exists
    /\ shell.mode = "command"
    /\ shell.context = "FILESYSTEM"
    /\ has_flags(shell, "ADMIN")
    /\ FS.ops < MaxFsOps

\* The state after a command and the record of it.
FsDone(op, from_filename, to_filename, result) ==
    /\ FS' = [result.fs EXCEPT !.ops = FS.ops + 1]
    /\ last_fs' = [op |-> op, local |-> has_flags(shell, "LOCAL"),
                   from |-> from_filename, to |-> to_filename,
                   to_final |-> result.to_final, msg |-> result.msg,
                   calls |-> result.calls,
                   files_before |-> FS.files, dirs_before |-> FS.dirs]
    /\ FsFrame

fs_mv ==
    /\ CanInvokeFs
    /\ \E from_filename \in FileInputs, to_filename \in FileInputs :
          FsDone("mv", from_filename, to_filename,
                 mv_command(shell, FS, from_filename, to_filename))

fs_cp ==
    /\ CanInvokeFs
    /\ \E from_filename \in FileInputs, to_filename \in FileInputs :
          FsDone("cp", from_filename, to_filename,
                 cp_command(shell, FS, from_filename, to_filename))

fs_rm ==
    /\ CanInvokeFs
    /\ \E filename \in FileInputs :
          FsDone("rm", filename, << >>, rm_command(shell, FS, filename))

fs_mkdir ==
    /\ CanInvokeFs
    /\ \E dirname \in FileInputs :
          FsDone("mkdir", dirname, << >>, mkdir_command(shell, FS, dirname))

fs_rmdir ==
    /\ CanInvokeFs
    /\ \E dirname \in FileInputs :
          FsDone("rmdir", dirname, << >>, rmdir_command(shell, FS, dirname))

fs_read ==
    /\ CanInvokeFs
    /\ \E filename \in FileInputs :
          FsDone("read", filename, << >>, read_command(shell, FS, filename))

fs_write ==
    /\ CanInvokeFs
    /\ \E filename \in FileInputs, entered \in BOOLEAN :
          FsDone("write", filename, << >>, write_command(shell, FS, filename, entered))

\* An admin shell that has entered the filesystem context with fsys: the
\* local console after su, a telnet console after su and the password.
FsInit ==
    /\ \E h \in Heaps : (\A k \in DOMAIN h : h[k]) /\ CacheStatics(h)
    /\ ConfigStatics(Missing, Missing)
    /\ TaskStatics
    /\ FilesystemStatics
    /\ PtyStatics
    /\ admin_password_ = <<"a">>
    /\ \E local \in BOOLEAN :
          /\ shell = [NoShell EXCEPT !.exists = TRUE, !.context = "FILESYSTEM",
                                     !.flags = IF local THEN {"USER", "LOCAL", "ADMIN"}
                                               ELSE {"USER", "ADMIN"}]
          /\ shell_ops = IF local THEN 3 ELSE 4
    /\ last_sh = [NoSh EXCEPT !.op = "fsys", !.admin_before = TRUE,
                              !.configured = admin_password_]

FsNext ==
    \/ fs_mv
    \/ fs_cp
    \/ fs_rm
    \/ fs_mkdir
    \/ fs_rmdir
    \/ fs_read
    \/ fs_write

SpecFs == FsInit /\ [][FsNext]_vars

(***************************************************************************)
(* The pty numbers of telnet consoles (src/src/console.cpp): the           *)
(* constructors and the destructor of AppConsole.                          *)
(***************************************************************************)
\* Constructions and destructions explored in one run.
MaxPtyOps == 7

PtyFrame ==
    UNCHANGED <<cache_vars, config_vars, mutex_vars, ddns_vars,
                shell, admin_password_, shell_ops, last_sh, FS, last_fs>>

\* The pty numbers of the telnet consoles alive.
HeldPtys(cs) == {cs[c].pty_ : c \in {d \in ConsoleIds : cs[d].alive /\ cs[d].pty_ # SIZE_MAX}}

\* pty_ = 0; while (pty_ < ptys_.size() && ptys_[pty_]) pty_++;
FirstFree(ptys) ==
    CHOOSE pty \in 0..Len(ptys) :
        /\ pty = Len(ptys) \/ ~ptys[pty + 1]
        /\ \A k \in 0..(pty - 1) : ptys[k + 1]

\* if (pty_ == ptys_.size()) ptys_.push_back(true); else ptys_[pty_] = true;
MarkPty(ptys, pty) ==
    IF pty = Len(ptys) THEN Append(ptys, TRUE) ELSE [ptys EXCEPT ![pty + 1] = TRUE]

\* (mutation of ReleasePty: the entry is left set)
ReleasePty_Keep(ptys, pty) == ptys

\* ptys_[pty_] = false; ptys_.shrink_to_fit(): the size stays.
ReleasePty(ptys, pty) == [ptys EXCEPT ![pty + 1] = FALSE]

PtyDone(op, c, pty) ==
    /\ last_console' = [op |-> op, console |-> c, pty_ |-> pty,
                        held_before |-> HeldPtys(consoles), n |-> last_console.n + 1]
    /\ PtyFrame

\* AppConsole::AppConsole(app, stream, addr, port): a telnet connection.
AppConsole_telnet(c) ==
    /\ last_console.n < MaxPtyOps
    /\ ~consoles[c].alive
    /\ ptys_' = MarkPty(ptys_, FirstFree(ptys_))
    /\ consoles' = [consoles EXCEPT ![c] = [alive |-> TRUE, pty_ |-> FirstFree(ptys_)]]
    /\ PtyDone("telnet", c, FirstFree(ptys_))

\* AppConsole::AppConsole(app, stream, local): pty_ is SIZE_MAX.
AppConsole_local(c) ==
    /\ last_console.n < MaxPtyOps
    /\ ~consoles[c].alive
    /\ consoles' = [consoles EXCEPT ![c] = [alive |-> TRUE, pty_ |-> SIZE_MAX]]
    /\ UNCHANGED ptys_
    /\ PtyDone("local", c, SIZE_MAX)

\* AppConsole::~AppConsole.
AppConsole_destroy(c) ==
    /\ last_console.n < MaxPtyOps
    /\ consoles[c].alive
    /\ ptys_' = IF consoles[c].pty_ # SIZE_MAX THEN ReleasePty(ptys_, consoles[c].pty_)
                ELSE ptys_
    /\ consoles' = [consoles EXCEPT ![c] = NoConsole]
    /\ PtyDone("destroy", c, consoles[c].pty_)

PtyInit ==
    /\ \E h \in Heaps : (\A k \in DOMAIN h : h[k]) /\ CacheStatics(h)
    /\ ConfigStatics(Missing, Missing)
    /\ ThreadStatics

PtyNext ==
    \/ \E c \in ConsoleIds : AppConsole_telnet(c)
    \/ \E c \in ConsoleIds : AppConsole_local(c)
    \/ \E c \in ConsoleIds : AppConsole_destroy(c)

SpecPty == PtyInit /\ [][PtyNext]_vars


(***************************************************************************)
(* The block cache on its own: the configuration starts with missing       *)
(* configuration files.                                                    *)
(***************************************************************************)
CacheInit ==
    /\ \E h \in Heaps : CacheStatics(h)
    /\ ConfigStatics(Missing, Missing)
    /\ ThreadStatics

CacheNext ==
    \/ __wrap_littlefs_api_read
    \/ __wrap_littlefs_api_prog
    \/ __wrap_littlefs_api_erase

SpecCache == CacheInit /\ [][CacheNext]_vars

(***************************************************************************)
(* The configuration store under a sequence of constructor, setter,        *)
(* commit and umount calls and reboots, over any of the initial files.     *)
(***************************************************************************)
ConfigInit ==
    /\ \E f \in InitialFiles : ConfigStatics(f[1], f[2])
    /\ \E h \in Heaps : (\A k \in DOMAIN h : h[k]) /\ CacheStatics(h)
    /\ ThreadStatics

ConfigNext ==
    \/ \E mount \in BOOLEAN : Config(mount)
    \/ Set
    \/ commit
    \/ umount
    \/ Reboot

SpecConfig == ConfigInit /\ [][ConfigNext]_vars

(***************************************************************************)
(* The codec, the defaults and the setters on their own: read_config is    *)
(* given the encodings of several settings, as written or with one pair    *)
(* under an unrecognised key added anywhere in the map.                    *)
(***************************************************************************)
\* Settings whose encodings are decoded: the defaults, those of a device in
\* use, with and without a syslog host, a hostname with an embedded NUL, and
\* a syslog host that is no address (a file not written by write_config).
CodecSettings ==
    {read_config_defaults(StaticSettings),
     StoredSettings,
     [StoredSettings EXCEPT !.syslog_host = <<"1", ".", "1", ".", "1", ".", "1">>,
                            !.syslog_level = 6, !.syslog_mark_interval = 60],
     [StoredSettings EXCEPT !.hostname = <<"a", NUL, "b">>],
     [StoredSettings EXCEPT !.syslog_host = <<"a">>]}

\* A pair under a key that is no field name: a text, an integer, a nested map.
ExtraPairs ==
    {<<TextItem(<<"extra">>), TextItem(<<"x">>)>>,
     <<TextItem(<<"extra">>), IntItem(7)>>,
     <<TextItem(<<"extra">>), MapItem(1), TextItem(<<"k">>), IntItem(1)>>}

\* The stream with the extra pair put in front of the k-th pair of the map
\* (behind the last one for k = config_num_keys + 1) and counted in the map.
InsertExtra(data, k, extra) ==
    <<data[1], MapItem(data[2].n + 1)>>
        \o SubSeq(data, 3, 2 * k) \o extra \o SubSeq(data, 2 * k + 1, Len(data))

\* The file without the items of the extra pair.
Stripped(file, k, extra) ==
    FileOf(<<file.data[1], MapItem(config_num_keys)>>
               \o SubSeq(file.data, 3, 2 * k)
               \o SubSeq(file.data, 2 * k + Len(extra) + 1, Len(file.data)))

CodecFiles ==
    {FileOf(write_config_writer(st)) : st \in CodecSettings}
        \cup {FileOf(InsertExtra(write_config_writer(st), k, extra)) :
                  st \in CodecSettings, k \in 1 .. (config_num_keys + 1),
                  extra \in ExtraPairs}

CodecInit ==
    /\ \E f \in CodecFiles : ConfigStatics(f, Missing)
    /\ \E h \in Heaps : (\A k \in DOMAIN h : h[k]) /\ CacheStatics(h)
    /\ ThreadStatics

CodecFrame ==
    /\ UNCHANGED <<mounted_, unavailable_, loaded_, constructed, backup, start_valid,
                   io_failed, persisted, commits, boots>>
    /\ UNCHANGED cache_vars
    /\ UNCHANGED thread_vars

\* Config::read_config_defaults().
CodecDefaults ==
    /\ settings' = read_config_defaults(settings)
    /\ last_cfg' = [NoCfg EXCEPT !.op = "defaults", !.settings_before = settings]
    /\ UNCHANGED <<primary, setter_calls>>
    /\ CodecFrame

\* One of the setters.
\* Input values of the setters: those above and, for syslog_host, an address
\* followed by a NUL and one more byte.
CodecInputs(name) ==
    IF name = "syslog_host"
    THEN HostInputs \cup {<<"1", ".", "1", ".", "1", ".", "1", NUL, "x">>}
    ELSE SetterInputs(name)

CodecSet ==
    /\ setter_calls < MaxSetterCalls
    /\ setter_calls' = setter_calls + 1
    /\ \E name \in FieldNames :
          \E value \in CodecInputs(name) :
             /\ settings' = Setter(settings, name, value)
             /\ last_cfg' = [NoCfg EXCEPT !.op = "set", !.settings_before = settings,
                                          !.host_set = (name = "syslog_host"),
                                          !.host_arg = IF name = "syslog_host"
                                                       THEN value ELSE << >>]
    /\ UNCHANGED primary
    /\ CodecFrame

\* writeTag and Config::write_config(cbor::Writer&) into the stream.
CodecEncode ==
    /\ primary' = FileOf(write_config_writer(settings))
    /\ last_cfg' = [NoCfg EXCEPT !.op = "encode", !.settings_before = settings]
    /\ UNCHANGED <<settings, setter_calls>>
    /\ CodecFrame

\* Config::read_config(filename, true) on the stream.
CodecDecode ==
    /\ LET r == read_config(primary, TRUE, settings)
       IN  /\ settings' = r.settings
           /\ last_cfg' = [NoCfg EXCEPT !.op = "decode", !.settings_before = settings,
                                        !.primary_ok = r.ok]
    /\ UNCHANGED <<primary, setter_calls>>
    /\ CodecFrame

CodecNext ==
    \/ CodecDefaults
    \/ CodecSet
    \/ CodecEncode
    \/ CodecDecode

SpecCodec == CodecInit /\ [][CodecNext]_vars

(***************************************************************************)
(* Properties of the block cache.                                          *)
(***************************************************************************)
\* The arrays exist and the last call returned to its caller.
CacheSettled == block_index_p /\ cache_index_p /\ ~fault

\* The same, in a process where every allocation of init() succeeded.
CacheHealthy == CacheSettled /\ cache_p /\ ~alloc_failed

\* C1: every successful read through the wrapper returns exactly the bytes a
\* direct read of the device returns at that moment; a cached block is never
\* served after a prog or erase changed the block on the device.
C1_CacheDeviceEquivalence ==
    (last_io.op = "read" /\ last_io.ret = 0 /\ ~fault) =>
        last_io.out = DeviceBytes(device, last_io.block, last_io.off, last_io.size)

\* C1 witness: a read of cached blocks succeeded, without any device read,
\* and returned bytes that differ from what the flash held at boot: the
\* range was changed by a prog or erase and fetched again since.
C1_Witness ==
    /\ last_io.op = "read" /\ last_io.ret = 0 /\ ~fault
    /\ last_io.block \in Blocks
    /\ last_io.out # DeviceBytes(InitialDevice, last_io.block, last_io.off, last_io.size)
    /\ \E s \in Slots : cache_index[s] = UINT16_MAX /\ cache[s] # << >>

\* C4: after every completed cache operation, failed fetches included, every
\* block whose block_index entry is a slot (not the sentinel) is named by
\* that slot's cache_index entry.
C4_ForwardIndex ==
    CacheSettled =>
        \A b \in Blocks :
            block_index[b] # UINT16_MAX =>
                /\ block_index[b] \in Slots
                /\ cache_index[block_index[b]] = b

\* C4 witness: a fetch has just failed in a full cache while another block
\* keeps its forward entry.
C4_Witness ==
    /\ CacheSettled
    /\ last_io.op = "read" /\ last_io.fslot # -1
    /\ used_cache_size = FILESYSTEM_CACHE_BLOCKS
    /\ \E b \in Blocks : block_index[b] # UINT16_MAX

\* C5: for every slot whose cache_index entry is not the sentinel, the
\* block_index entry of the block it names is that slot.
C5_ReverseIndex ==
    CacheHealthy =>
        \A s \in Slots :
            cache_index[s] # UINT16_MAX =>
                /\ cache_index[s] \in Blocks
                /\ block_index[cache_index[s]] = s

\* C6: no two distinct slots name the same logical block in cache_index.
C6_SlotUniqueness ==
    CacheHealthy =>
        \A s1, s2 \in Slots :
            (s1 # s2 /\ cache_index[s1] \in Blocks) =>
                cache_index[s1] # cache_index[s2]

\* C7: when the device read of a miss fails, on return the block has no
\* forward entry, the chosen slot is marked empty in cache_index, and read
\* returns the failure.
C7_FailedFetchNotCommitted ==
    (CacheHealthy /\ last_io.op = "read" /\ last_io.fslot # -1) =>
        /\ last_io.ret # 0
        /\ block_index[last_io.fblock] = UINT16_MAX
        /\ cache_index[last_io.fslot] = UINT16_MAX

\* C8: once an allocation of init() has failed, every read is served by the
\* device read with correct results: nothing is dereferenced through a null
\* pointer, and read fails only when the flash itself failed.
C8_FailSoftAllocation ==
    (alloc_failed /\ last_io.op = "read") =>
        /\ ~fault
        /\ stray = FALSE
        /\ last_io.ret # 0 => last_io.deverr
        /\ last_io.ret = 0 =>
              last_io.out = DeviceBytes(device, last_io.block, last_io.off,
                                        last_io.size)

\* C17: a read whose block, after whole blocks are folded out of the offset,
\* is not below FILESYSTEM_BLOCKS returns the status and bytes of the device
\* read of that block, offset and size, and changes neither index array nor
\* used_cache_size.
C17_OutOfRangePassthrough ==
    [][(/\ last_io'.op = "read"
        /\ FoldBlock(last_io'.block, last_io'.off) >= FILESYSTEM_BLOCKS) =>
           /\ ~fault'
           /\ <<last_io'.ret, last_io'.out>> \in
                  __real_littlefs_api_read(device, FoldBlock(last_io'.block, last_io'.off),
                                           FoldOff(last_io'.off), last_io'.size)
           /\ block_index' = block_index
           /\ block_index_p => cache_index' = cache_index
           /\ used_cache_size' = used_cache_size]_vars

\* The blocks with a forward entry and the slots with a reverse entry.
ValidForward == {b \in Blocks : block_index[b] # UINT16_MAX}

NonEmptySlots == {s \in Slots : cache_index[s] # UINT16_MAX}

\* C18: the blocks with a forward entry, the non-empty slots and
\* used_cache_size each number at most FILESYSTEM_CACHE_BLOCKS, and every slot
\* number stored in block_index is below FILESYSTEM_CACHE_BLOCKS.
C18_EvictionBound ==
    /\ Cardinality(ValidForward) <= FILESYSTEM_CACHE_BLOCKS
    /\ Cardinality(NonEmptySlots) <= FILESYSTEM_CACHE_BLOCKS
    /\ used_cache_size <= FILESYSTEM_CACHE_BLOCKS
    /\ \A b \in ValidForward : block_index[b] \in Slots

\* A read that missed two blocks and left the cache full.
C18_Witness ==
    /\ CacheHealthy
    /\ last_io.op = "read"
    /\ last_io.ret = 0
    /\ last_io.nreads = 2
    /\ cache_ops >= 2
    /\ used_cache_size = FILESYSTEM_CACHE_BLOCKS
    /\ Cardinality(ValidForward) = FILESYSTEM_CACHE_BLOCKS

\* C19: after the evict() of a prog or erase call on an initialised cache,
\* every in-range block that overlaps the range has no forward entry and is
\* named by no slot, and the entries of every other block are as before.
C19_EvictCoverage ==
    [][(last_io'.op \in {"prog", "erase"} /\ CacheHealthy) =>
          \A b \in Blocks :
             IF b \in Overlapping(last_io'.block, last_io'.off, last_io'.size)
             THEN /\ block_index'[b] = UINT16_MAX
                  /\ \A s \in Slots : cache_index'[s] # b
             ELSE /\ block_index'[b] = block_index[b]
                  /\ \A s \in Slots : (cache_index'[s] = b) = (cache_index[s] = b)]_vars

\* C20: in every prog and erase in which the device operation is invoked, no
\* block of the range is still served from the cache when the device
\* operation is invoked nor after the call, whatever the device operation
\* returns, and the wrapper returns the status of the device operation.
C20_InvalidateBeforeWrite ==
    (last_io.op \in {"prog", "erase"} /\ ~fault) =>
        /\ last_io.cached_at_call = {}
        /\ StillCached(Statics, last_io.block, last_io.off, last_io.size) = {}
        /\ last_io.ret = last_io.devret

\* A prog or erase of a cached block in which the device operation failed.
C20_Witness ==
    /\ last_io.op \in {"prog", "erase"}
    /\ ~fault
    /\ CacheHealthy
    /\ last_io.cached_before # {}
    /\ last_io.cached_at_call = {}
    /\ last_io.ret # 0
    /\ last_io.ret = last_io.devret

(***************************************************************************)
(* Properties of the configuration store.                                  *)
(***************************************************************************)
\* The file is what write_config produces for some settings: the tag, a map
\* of config_num_keys pairs, one pair per declared field in order, each value
\* of the field's type and within the range of the field's C++ type.
IsSnapshot(file) ==
    /\ file.exists
    /\ Len(file.data) = 2 + 2 * config_num_keys
    /\ expectTag(file.data)
    /\ file.data[2] = MapItem(config_num_keys)
    /\ \A i \in DOMAIN Fields :
          LET key == file.data[2 * i + 1]
              item == file.data[2 * i + 2]
          IN  /\ key = write_map_key(Fields[i])
              /\ read_map_value_ok(Fields[i], item)
              /\ Fields[i] = "syslog_host" =>
                     (item.s = << >> \/ (item.s = c_str(item.s) /\ fromString(item.s)))
              /\ Fields[i] = "syslog_level" => item.n \in (-128) .. 127
              /\ Fields[i] = "syslog_mark_interval" => item.n = ToUnsignedLong(item.n)

\* The value a snapshot stores for the i-th declared field.
StoredValue(file, i) ==
    IF Fields[i] \in StringFields
    THEN file.data[2 * i + 2].s
    ELSE file.data[2 * i + 2].n

C3_CrashSafety ==
    (start_valid /\ ~io_failed) => (Loadable(primary) \/ Loadable(backup))

\* C9: Config(true) in an unloaded process with the filesystem mounted, a
\* primary file that is missing or does not load and a backup file that is a
\* snapshot sets loaded_ and leaves in every field the value the backup stores.
C9_LoadFallback ==
    (/\ last_cfg.op = "Config"
     /\ last_cfg.mount
     /\ last_cfg.fresh
     /\ last_cfg.fs = "mounted"
     /\ last_cfg.loading
     /\ ~Loadable(primary)
     /\ IsSnapshot(backup)) =>
        /\ loaded_
        /\ \A i \in DOMAIN Fields : settings[Fields[i]] = StoredValue(backup, i)

\* C10: after a commit() in which the mount, the primary write, the read-back
\* and the backup write all succeeded, the first Config(true) of a new process
\* on the same storage leaves in every field the value it had at the commit.
C10_PersistenceRoundTrip ==
    (/\ last_cfg.op = "Config"
     /\ last_cfg.mount
     /\ last_cfg.fresh
     /\ last_cfg.fs = "mounted"
     /\ last_cfg.loading
     /\ ~io_failed
     /\ persisted.valid) =>
        settings = persisted.settings

\* C11: when the decode of the primary file fails in the constructor, the
\* in-memory settings it leaves are the settings the constructor started with.
C11_DecodeAllOrNothing ==
    [][(/\ last_cfg'.op = "Config"
        /\ last_cfg'.loading
        /\ ~last_cfg'.primary_ok) => last_cfg'.rejected = settings]_vars

\* The declared fields for which the file's map has a key.
KeysOf(file) ==
    {name \in FieldNames : \E i \in DOMAIN file.data : file.data[i] = write_map_key(name)}

\* C12: after the first constructor of a process has loaded the primary or
\* the backup file, every declared field the loaded file has no key for holds
\* its compile-time default.
C12_DefaultForAbsentField ==
    (/\ last_cfg.op = "Config"
     /\ last_cfg.fresh
     /\ last_cfg.loading
     /\ last_cfg.source \in {"primary", "backup"}) =>
        LET file == IF last_cfg.source = "primary" THEN primary ELSE backup
        IN  \A name \in FieldNames \ KeysOf(file) : settings[name] = DefaultOf(name)

\* C13: Config(true) in an unloaded process in which the filesystem does not
\* get mounted or neither file loads sets loaded_ and leaves every declared
\* field at its compile-time default.
C13_DefaultsWhenNothingLoads ==
    (/\ last_cfg.op = "Config"
     /\ last_cfg.mount
     /\ last_cfg.unloaded
     /\ (~mounted_ \/ (~Loadable(primary) /\ ~Loadable(backup)))) =>
        /\ loaded_
        /\ \A name \in FieldNames : settings[name] = DefaultOf(name)

\* Defaults populated after a rejected primary file had applied a field.
C13_Witness ==
    /\ last_cfg.op = "Config"
    /\ last_cfg.mount
    /\ last_cfg.source = "defaults"
    /\ last_cfg.loading
    /\ last_cfg.rejected # StaticSettings
    /\ loaded_
    /\ settings.syslog_level = OFF
    /\ settings.admin_password = << >>

\* C14: an operation called after a mount has failed in this process (that is
\* with unavailable_ set) calls no mount, opens no file and leaves
\* unavailable_ set.
C14_StickyMountFailure ==
    (last_cfg.unavailable_before /\ last_cfg.op \in {"Config", "set", "commit", "umount"}) =>
        /\ unavailable_
        /\ ~mounted_
        /\ last_cfg.fs = "none"
        /\ ~last_cfg.opened

\* A commit() called after the mount had failed.
C14_Witness ==
    /\ last_cfg.unavailable_before
    /\ last_cfg.op = "commit"
    /\ last_cfg.fs = "none"
    /\ ~last_cfg.opened
    /\ unavailable_

\* C15: an operation called with loaded_ set leaves it set, and a constructor
\* called with loaded_ set opens no file and changes no setting.
C15_LoadAtMostOnce ==
    [][(loaded_ /\ last_cfg'.op \in {"Config", "set", "commit", "umount"}) =>
          /\ loaded_'
          /\ last_cfg'.op = "Config" =>
                 /\ ~last_cfg'.loading
                 /\ ~last_cfg'.opened
                 /\ settings' = settings]_vars

\* A constructor called on a mounted filesystem after a setter, in a process
\* that had loaded: the value of the setter is still there, not the file's.
C15_Witness ==
    /\ last_cfg.op = "Config"
    /\ ~last_cfg.unloaded
    /\ mounted_
    /\ loaded_
    /\ commits = 0
    /\ Loadable(primary)
    /\ settings.hostname = <<"a">>

\* C16: a constructor called with mount = false calls no mount, opens no file
\* and leaves mounted_, unavailable_, loaded_ and every setting as they were.
C16_ConfigFalseNoSideEffects ==
    [][(last_cfg'.op = "Config" /\ ~last_cfg'.mount) =>
          /\ last_cfg'.fs = "none"
          /\ ~last_cfg'.opened
          /\ mounted_' = mounted_
          /\ unavailable_' = unavailable_
          /\ loaded_' = loaded_
          /\ settings' = settings]_vars

\* C21: after commit() returns, whatever the outcome of the mount, of the
\* primary write, of the read-back and of the backup write, every field has the
\* value it had when commit() was called.
C21_CommitKeepsSettings ==
    last_cfg.op = "commit" => settings = last_cfg.settings_before

\* A commit of a changed hostname whose primary write failed: the value set
\* stays in memory and the primary file still stores the older one.
C21_Witness ==
    /\ last_cfg.op = "commit"
    /\ last_cfg.opened
    /\ ~last_cfg.primary_written
    /\ setter_calls = 1
    /\ settings.hostname = <<"a">>
    /\ last_cfg.settings_before.hostname = <<"a">>
    /\ primary = StoredSnapshot

\* C22: after a commit that succeeded in every step, the primary and the
\* backup file hold the same verified content; when the next commit (or one
\* that power loss cuts short) has written the primary file and read it back,
\* the backup file holds that new content or the content of the commit before.
C22_BackupLagBound ==
    [][(/\ persisted.valid
        /\ primary = backup
        /\ last_cfg'.op \in {"commit", "crash"}
        /\ last_cfg'.primary_written
        /\ last_cfg'.verified) => backup' \in {primary', primary}]_vars

\* The file is a snapshot with the extra pair in front of its k-th pair.
ExtraKeyAt(file, k, extra) ==
    /\ file.exists
    /\ Len(file.data) = 2 + 2 * config_num_keys + Len(extra)
    /\ file.data[2] = MapItem(config_num_keys + 1)
    /\ SubSeq(file.data, 2 * k + 1, 2 * k + Len(extra)) = extra
    /\ IsSnapshot(Stripped(file, k, extra))

\* C23: decoding a snapshot to which one pair under an unrecognised key with
\* a well-formed value was added, at any place of the map, succeeds and leaves
\* in every field the value the file stores for it.
C23_ForwardCompatibility ==
    last_cfg.op = "decode" =>
        \A k \in 1 .. (config_num_keys + 1), extra \in ExtraPairs :
            ExtraKeyAt(primary, k, extra) =>
                /\ last_cfg.primary_ok
                /\ \A i \in DOMAIN Fields :
                       settings[Fields[i]] = StoredValue(Stripped(primary, k, extra), i)

\* Every field holds its compile-time default.
AllDefault(st) == \A name \in FieldNames : st[name] = DefaultOf(name)

\* What write_config(filename) writes while every field holds its default.
EncodedDefaults == FileOf(write_config_writer([name \in FieldNames |-> DefaultOf(name)]))

\* C24: the encoding of the settings while every field holds its default is
\* the tag and a map of one pair per declared field, and decoding that stream
\* succeeds and leaves every field at its default.
C24_DefaultsRoundTrip ==
    /\ (last_cfg.op = "encode" /\ AllDefault(settings)) =>
           /\ primary = EncodedDefaults
           /\ IsSnapshot(primary)
    /\ (last_cfg.op = "decode" /\ primary = EncodedDefaults) =>
           /\ last_cfg.primary_ok
           /\ AllDefault(settings)

\* The encoded defaults decoded over settings that were not the defaults.
C24_Witness ==
    /\ last_cfg.op = "decode"
    /\ primary = EncodedDefaults
    /\ ~AllDefault(last_cfg.settings_before)
    /\ last_cfg.settings_before.syslog_level # OFF
    /\ last_cfg.primary_ok
    /\ AllDefault(settings)

\* C25: after the defaults, after a load and after any setter call,
\* syslog_host() is empty or is accepted by IPAddress::fromString as the
\* setter calls it; a call of the syslog_host setter with a string that is
\* not accepted leaves the field empty.
C25_ValidatedOrEmptyHost ==
    /\ settings.syslog_host = << >> \/ fromString(c_str(settings.syslog_host))
    /\ (last_cfg.op = "set" /\ last_cfg.host_set /\ ~fromString(c_str(last_cfg.host_arg))) =>
           settings.syslog_host = << >>

\* The setter called with a string that is no address while the field held
\* an address loaded from the file.
C25_Witness ==
    /\ last_cfg.op = "set"
    /\ last_cfg.host_set
    /\ last_cfg.host_arg = <<"a">>
    /\ last_cfg.settings_before.syslog_host = <<"1", ".", "1", ".", "1", ".", "1">>
    /\ settings.syslog_host = << >>

\* C26: every filesystem call in flight, of a file-mutating shell command or
\* of a Config mount, load or commit sequence, is made by a thread that holds
\* App::file_mutex, and no two threads have a filesystem call in flight.
C26_FileMutexSerialisation ==
    /\ \A t \in Threads : fs_call[t] => file_mutex.owner = t
    /\ Cardinality({t \in Threads : fs_call[t]}) <= 1

\* C27: loop() is inside thread_.join() only when the worker has returned
\* from run() and has stored false to running_; a call of loop() that reads
\* running_ as true returns without joining.
C27_NonBlockingJoin ==
    /\ loop_pc = "joining" =>
           /\ ~running_
           /\ worker \in {"tail", "exited"}
           /\ "running_" \notin worker_pending
    /\ last_loop.joined => (~last_loop.read_running /\ last_loop.cleared_at_join)
    /\ last_loop.read_running => (~last_loop.joined /\ loop_pc = "idle")

\* A second worker was started by the call of loop() that joined the first.
C27_Witness ==
    /\ last_loop.joined
    /\ last_loop.cleared_at_join
    /\ last_loop.started
    /\ loop_pc = "idle"
    /\ worker = "run"
    /\ running_

\* C28: in a read, a pass over an in-range block that has a forward entry
\* issues no device read and changes neither index array; a pass over an
\* in-range block without a forward entry issues exactly one device read, of
\* the whole block (offset 0, FILESYSTEM_BLOCK_SIZE bytes), and no byte of the
\* block has been copied to the caller when that read fails.
C28_HitMissTraffic ==
    last_io.op = "read" =>
        \A i \in DOMAIN last_io.trace :
            LET v == last_io.trace[i]
            IN  IF v.hit
                THEN /\ v.devreads = << >>
                     /\ v.block_index_after = v.block_index
                     /\ v.cache_index_after = v.cache_index
                ELSE /\ v.devreads = <<<<v.block, 0, FILESYSTEM_BLOCK_SIZE>>>>
                     /\ last_io.fblock = v.block => v.copied = 0

\* C29: while used_cache_size is below FILESYSTEM_CACHE_BLOCKS, a pass of
\* read() over a block without a forward entry takes slot used_cache_size, a
\* slot no forward entry names, for the block (the forward entry stays unless
\* the fetch fails), adds one to used_cache_size and leaves the forward entry
\* of every other block as it was; no call, evict() included, decreases
\* used_cache_size.
C29_AllocationOrder ==
    [][/\ used_cache_size' >= used_cache_size
       /\ last_io'.op = "read" =>
              \A i \in DOMAIN last_io'.trace :
                  LET v == last_io'.trace[i]
                  IN  (~v.hit /\ v.used < FILESYSTEM_CACHE_BLOCKS) =>
                          /\ \A b \in Blocks : v.block_index[b] # v.used
                          /\ v.cache_index_after[v.used] = v.block
                          /\ last_io'.fblock # v.block =>
                                 v.block_index_after[v.block] = v.used
                          /\ v.used_after = v.used + 1
                          /\ \A b \in Blocks \ {v.block} :
                                 v.block_index_after[b] = v.block_index[b]]_vars

\* C30: when used_cache_size is FILESYSTEM_CACHE_BLOCKS and a pass of read()
\* over block c, which has no forward entry, picks slot p, every other block
\* whose forward entry named a slot other than p keeps that entry, and at the
\* end of the pass cache_index[p] is c and, unless the fetch failed,
\* block_index[c] is p.
C30_EvictionFrame ==
    last_io.op = "read" =>
        \A i \in DOMAIN last_io.trace :
            LET v == last_io.trace[i]
            IN  (~v.hit /\ v.used >= FILESYSTEM_CACHE_BLOCKS) =>
                    /\ v.slot \in Slots
                    /\ \A b \in Blocks \ {v.block} :
                           (v.block_index[b] # UINT16_MAX /\ v.block_index[b] # v.slot) =>
                               v.block_index_after[b] = v.block_index[b]
                    /\ v.cache_index_after[v.slot] = v.block
                    /\ last_io.fblock # v.block => v.block_index_after[v.block] = v.slot

\* The device reads issued and the bytes copied in the passes of a trace.
RECURSIVE TraceReads(_)
TraceReads(trace) ==
    IF trace = << >> THEN 0 ELSE Len(Head(trace).devreads) + TraceReads(Tail(trace))

RECURSIVE TraceCopied(_)
TraceCopied(trace) ==
    IF trace = << >> THEN 0 ELSE Head(trace).copied + TraceCopied(Tail(trace))

\* C31: a read in which the device fetch of a missing block fails returns the
\* status of that device read, has issued one device read for the block and
\* none after it, has copied no byte of the block to the caller, and leaves the
\* block without a forward entry; the next read, if it starts at that block,
\* issues the device read of the block again.
C31_NoRetryVerbatimError ==
    [][/\ (last_io'.op = "read" /\ last_io'.fblock # -1) =>
             LET trace == last_io'.trace
                 v == trace[Len(trace)]
             IN  /\ v.block = last_io'.fblock
                 /\ v.status \in DeviceErrors
                 /\ last_io'.ret = v.status
                 /\ v.devreads = <<FetchRange(v.block)>>
                 /\ last_io'.nreads = TraceReads(trace)
                 /\ v.copied = 0
                 /\ Len(last_io'.out) = TraceCopied(trace)
                 /\ block_index'[v.block] = UINT16_MAX
       /\ (/\ last_io.op = "read" /\ last_io.fblock # -1
           /\ last_io'.op = "read"
           /\ FoldBlock(last_io'.block, last_io'.off) = last_io.fblock) =>
             /\ ~last_io'.trace[1].hit
             /\ last_io'.trace[1].devreads = <<FetchRange(last_io.fblock)>>]_vars

\* A read over two blocks that copied a byte of the first and then failed
\* the fetch of the second, at capacity, with LFS_ERR_CORRUPT.
C31_Witness ==
    /\ CacheHealthy
    /\ cache_ops = 2
    /\ last_io.op = "read"
    /\ last_io.fblock = 1
    /\ last_io.ret = -84
    /\ Len(last_io.trace) = 2
    /\ last_io.trace[1].copied = 1
    /\ last_io.out = DeviceBytes(device, 0, 1, 1)
    /\ used_cache_size = FILESYSTEM_CACHE_BLOCKS
    /\ block_index[1] = UINT16_MAX

\* C32: no cache operation has read or written block_index, cache_index or
\* the cache buffer outside its bounds, and every cache_index entry that no
\* read has claimed yet holds the sentinel init() is to give it.
C32_IndexMemorySafety ==
    /\ ~stray
    /\ cache_index_p =>
           \A s \in Slots : s >= used_cache_size => cache_index[s] = UINT16_MAX

\* C33: a commit() that opens a configuration file for writing was called
\* with loaded_ set, that is after a load from a file or the population of the
\* defaults; a commit() on a Config(false) object in a process that has not
\* loaded writes nothing.
C33_CommitOnlyLoaded ==
    (last_cfg.op \in {"commit", "crash"} /\ last_cfg.opened) => ~last_cfg.unloaded

\* C34: the client is never left with running_ set and no worker thread that
\* will clear it; in such a state every later call of loop() reads running_
\* as true and returns at once, so no worker is started again after a
\* std::thread constructor that threw.
C34_SpawnFailureRecovery ==
    running_ => (worker \in {"run", "tail"} /\ thread_)

\* C35: when loop() goes on to lines 70-108, where it writes
\* current_address_, url_ and password_ and may assign a new thread to
\* thread_, no worker thread exists and thread_ is not joinable: a worker is
\* started only after the previous one has ended and was joined.
C35_AtMostOneWorker ==
    last_loop.updated =>
        /\ last_loop.worker_at_update = "none"
        /\ ~last_loop.thread_at_update

\* A second worker started in the call of loop() that joined the first.
C35_Witness ==
    /\ last_loop.updated
    /\ last_loop.joined
    /\ last_loop.started
    /\ last_loop.worker_at_update = "none"
    /\ worker = "run"
    /\ thread_

\* The (off, size) of calls whose offset is not below the block size.
FoldShapes ==
    {<<FILESYSTEM_BLOCK_SIZE, 1>>, <<FILESYSTEM_BLOCK_SIZE + 1, 2>>,
     <<2 * FILESYSTEM_BLOCK_SIZE, FILESYSTEM_BLOCK_SIZE>>}

\* C36: in every state, read() and evict() called with an offset that is not
\* below the block size have the outcomes (status, bytes, device reads, index
\* arrays, used_cache_size) of the call with block + off div block size and
\* off mod block size and the same size; and in a read over several blocks
\* every pass after the first is over the next block, from offset 0.
C36_OffsetFolding ==
    /\ \A block \in 0 .. (DeviceBlocks - 1), shape \in FoldShapes :
          LET fblock == block + (shape[1] \div FILESYSTEM_BLOCK_SIZE)
              foff == shape[1] % FILESYSTEM_BLOCK_SIZE
          IN  /\ \A a \in AllocChoices :
                    read(Statics, a, device, block, shape[1], shape[2])
                        = read(Statics, a, device, fblock, foff, shape[2])
              /\ evict(Statics, block, shape[1], shape[2])
                    = evict(Statics, fblock, foff, shape[2])
    /\ last_io.op = "read" =>
          \A i \in 2 .. Len(last_io.trace) :
              /\ last_io.trace[i].off = 0
              /\ last_io.trace[i].block = last_io.trace[i - 1].block + 1

\* A read called with an offset of a whole block served the next block, and
\* a read from inside it goes on into the block after at offset 0.
C36_Witness ==
    /\ CacheHealthy
    /\ last_io.op = "read"
    /\ last_io.ret = 0
    /\ last_io.off = FILESYSTEM_BLOCK_SIZE
    /\ last_io.trace[1].block = last_io.block + 1
    /\ last_io.block + 2 \in Blocks
    /\ \E a \in AllocChoices :
       \E r \in read(Statics, a, device, last_io.block, FILESYSTEM_BLOCK_SIZE + 1, 2) :
          /\ Len(r.trace) = 2
          /\ r.trace[1].hit
          /\ r.trace[1].off = 1
          /\ r.trace[2].block = last_io.block + 2
          /\ r.ret = 0

\* C37 (as claimed): a shell without the LOCAL flag gets the ADMIN flag only
\* from the su password prompt completed with a non-empty password equal to
\* the configured admin password, and every exit or logout command of a shell
\* that has the ADMIN flag removes it.
C37_AdminOnlyByPassword ==
    /\ (has_flags(shell, "ADMIN") /\ ~has_flags(shell, "LOCAL") /\ ~last_sh.admin_before) =>
           /\ last_sh.op = "su_password"
           /\ last_sh.completed
           /\ last_sh.password # << >>
           /\ last_sh.password = last_sh.configured
    /\ (last_sh.op = "su_password" /\ last_sh.configured = << >> /\ ~last_sh.admin_before) =>
           ~has_flags(shell, "ADMIN")
    /\ (last_sh.op \in {"exit", "logout"} /\ last_sh.admin_before) =>
           ~has_flags(shell, "ADMIN")

\* C37 (amended): the same, where the exit command is that of the main
\* context; in the filesystem context exit leaves the context and the shell
\* keeps the ADMIN flag.
C37_AdminOnlyByPassword_MainExit ==
    /\ (has_flags(shell, "ADMIN") /\ ~has_flags(shell, "LOCAL") /\ ~last_sh.admin_before) =>
           /\ last_sh.op = "su_password"
           /\ last_sh.completed
           /\ last_sh.password # << >>
           /\ last_sh.password = last_sh.configured
    /\ (last_sh.op = "su_password" /\ last_sh.configured = << >> /\ ~last_sh.admin_before) =>
           ~has_flags(shell, "ADMIN")
    /\ (/\ last_sh.admin_before
        /\ \/ last_sh.op = "logout"
           \/ last_sh.op = "exit" /\ last_sh.context_before = "MAIN") =>
           ~has_flags(shell, "ADMIN")
    /\ (/\ last_sh.admin_before
        /\ last_sh.op = "exit"
        /\ last_sh.context_before # "MAIN") =>
           (has_flags(shell, "ADMIN") /\ shell.exists /\ shell.context = "MAIN")

\* A telnet shell that became admin by the configured password, entered the
\* filesystem context and left it with exit.
C37_Witness ==
    /\ shell.exists
    /\ ~has_flags(shell, "LOCAL")
    /\ has_flags(shell, "ADMIN")
    /\ last_sh.op = "exit"
    /\ last_sh.context_before = "FILESYSTEM"
    /\ admin_password_ = <<"b">>

\* The filename names a configuration file: its normalised form begins with
\* "/config.".
IsConfigPath(filename) == HasPrefix(normalise_filename(filename), config_prefix)

\* The last command was given a configuration path by a shell without LOCAL,
\* as source, as destination or as the destination formed in a directory.
ConfigRequest ==
    /\ last_fs.op # "none"
    /\ ~last_fs.local
    /\ \/ IsConfigPath(last_fs.from)
       \/ IsConfigPath(last_fs.to)
       \/ IsConfigPath(last_fs.to_final)

\* C38 (as claimed): every filesystem command of a shell without LOCAL that
\* names a configuration path ends with "access denied", without a call
\* that reads content or changes the filesystem and with the filesystem as
\* it was.
C38_ConfigFilesProtected ==
    ConfigRequest =>
        /\ last_fs.msg = "access denied"
        /\ last_fs.calls = << >>
        /\ FS.files = last_fs.files_before
        /\ FS.dirs = last_fs.dirs_before

\* C38 (amended): such a command makes no call that reads content or changes
\* the filesystem and leaves the filesystem as it was; it ends with "access
\* denied" unless the test of the source that comes before the test of the
\* path has failed: the source does not exist ("file not found", "directory
\* not found") or is of the wrong kind ("is a directory", "is not a
\* directory").
C38_ConfigFilesUntouched ==
    ConfigRequest =>
        LET before == [files |-> last_fs.files_before, dirs |-> last_fs.dirs_before]
        IN  /\ last_fs.calls = << >>
            /\ FS.files = last_fs.files_before
            /\ FS.dirs = last_fs.dirs_before
            /\ last_fs.msg \in {"access denied", "file not found", "directory not found",
                                "is a directory", "is not a directory"}
            /\ last_fs.msg \in {"file not found", "directory not found"} =>
                   ~FS_exists(before, last_fs.from)
            /\ last_fs.msg = "is a directory" =>
                   /\ FS_isDirectory(before, last_fs.from)
                   /\ last_fs.op # "mv"
            /\ last_fs.msg = "is not a directory" =>
                   /\ FS_exists(before, last_fs.from)
                   /\ ~FS_isDirectory(before, last_fs.from)

\* A telnet admin copies /d/config.x to the directory /: the destination
\* formed, /config.x, is refused.
C38_Witness ==
    /\ ~last_fs.local
    /\ last_fs.op = "cp"
    /\ last_fs.from = nested_config
    /\ last_fs.to = root_dir
    /\ last_fs.to_final = config_file
    /\ last_fs.msg = "access denied"
    /\ FS.files = ShellFiles

\* C39: no two telnet consoles alive together have the same pty number;
\* a new telnet console gets the smallest number that no telnet console
\* alive at its creation held; the number of a destroyed console is held by
\* no console and free in ptys_, so that the rule above hands it out again.
C39_UniquePtys ==
    /\ \A c, d \in ConsoleIds :
          (/\ c # d
           /\ consoles[c].alive /\ consoles[d].alive
           /\ consoles[c].pty_ # SIZE_MAX /\ consoles[d].pty_ # SIZE_MAX) =>
              consoles[c].pty_ # consoles[d].pty_
    /\ last_console.op = "telnet" =>
          /\ consoles[last_console.console].pty_ = last_console.pty_
          /\ last_console.pty_ >= 0
          /\ last_console.pty_ \notin last_console.held_before
          /\ \A k \in 0..(last_console.pty_ - 1) : k \in last_console.held_before
    /\ (last_console.op = "destroy" /\ last_console.pty_ # SIZE_MAX) =>
          /\ last_console.pty_ \notin HeldPtys(consoles)
          /\ ~ptys_[last_console.pty_ + 1]
          /\ FirstFree(ptys_) <= last_console.pty_

\* A telnet console has just been given pty 0 again, after the console that
\* held it was destroyed, while the consoles of pty 1 and pty 2 live on.
C39_Witness ==
    /\ last_console.op = "telnet"
    /\ last_console.pty_ = 0
    /\ last_console.held_before = {1, 2}
    /\ Len(ptys_) = 3

====
